---- MODULE Spec2Model ----
(***************************************************************************)
(* A model of the aicarousel gateway: the dispatch core (chat_handler.ts), *)
(* the provider registry that feeds it, the credential store and the HTTP  *)
(* surface.  Every definition that models code names its source in         *)
(* MODEL_MAP.json.                                                         *)
(***************************************************************************)
EXTENDS Integers, Sequences, FiniteSets, TLC

\* ------------------------------------------------------------------ bounds

\* How many of the known providers take part (in the order of the provider table).
NumProviders == 3
\* How many dispatches a round-robin run counts.
MaxDispatches == 6
\* How many keys createApiKey issues.
MaxKeys == 2
\* How many validateApiKey calls are between their call and their lookup.
MaxValidations == 2
\* How far a usage_count is followed.
MaxUsage == 3
\* How long an active list a request at the HTTP surface is dispatched over.
MaxHttpActive == 1
\* How many models addModel lets a provider's list grow to.
MaxModels == 3
\* Chunks followed on an upstream iterator after its first chunk.
MaxChunks == 2
\* Operations called while a reader holds a configuration object.
MaxHeldCalls == 2
\* How many migrate() runs are followed.
MaxMigrateRuns == 6
\* The highest priority a row of provider_settings is followed to.
MaxPriority == 5
\* By how many milliseconds the clock moves in one step.
TickMs == 500

\* ------------------------------------------------------------- plain values

NULL == "null"

Min(a, b) == IF a <= b THEN a ELSE b

\* The provider table, in Object.keys order.
ProviderKeyList == <<"cerebras", "groq", "openrouter", "gemini">>

ProviderKeys == { ProviderKeyList[n] : n \in 1..Len(ProviderKeyList) }

KnownProviders == { ProviderKeyList[n] : n \in 1..Min(NumProviders, Len(ProviderKeyList)) }

ProviderPos(key) == CHOOSE n \in 1..Len(ProviderKeyList) : ProviderKeyList[n] = key

\* Messages of upstream errors.
Errors == {"E1", "E2"}

NoProvidersMessage == "No AI providers configured"
AllFailedMessage == "All AI services failed"

\* ------------------------------------------------------ models configuration

\* validateProviderConfig: default is a non-empty string, models is a non-empty
\* list of non-empty strings, default is in models.  Nothing else is checked.
ValidateProviderConfig(config) ==
    /\ config.default # ""
    /\ Len(config.models) > 0
    /\ \A n \in 1..Len(config.models) : config.models[n] # ""
    /\ \E n \in 1..Len(config.models) : config.models[n] = config.default

\* Per-provider entries written to models.json; saveModelsConfig keeps those that
\* validateProviderConfig accepts.
ConfigCandidates ==
    { [default |-> "m1", enableFallback |-> FALSE, models |-> <<"m1", "m2">>],
      [default |-> "m2", enableFallback |-> TRUE,  models |-> <<"m1", "m2", "m3">>],
      [default |-> "m3", enableFallback |-> TRUE,  models |-> <<"m1", "m2">>],
      [default |-> "m1", enableFallback |-> TRUE,  models |-> <<"m1", "">>],
      [default |-> "m1", enableFallback |-> FALSE, models |-> << >>] }

SavedConfigs == { c \in ConfigCandidates : ValidateProviderConfig(c) }

\* reorderModels: the new order must be as long as the current list and every
\* entry of it must be in the current list; then it replaces the list and the
\* configuration is saved if it validates.  A rejected call leaves the entry.
ReorderModels(config, newOrder) ==
    IF /\ Len(newOrder) = Len(config.models)
       /\ \A n \in 1..Len(newOrder) :
             \E m \in 1..Len(config.models) : config.models[m] = newOrder[n]
       /\ ValidateProviderConfig([config EXCEPT !.models = newOrder])
    THEN [config EXCEPT !.models = newOrder]
    ELSE config

\* Orders handed to reorderModels.
ReorderInputs == { <<"m1", "m2">>, <<"m1", "m1", "m2">>, <<"m1", "m4", "m2">> }

\* The entries the store can hold for a provider: saved ones, and what
\* reorderModels makes of them.
ProviderConfigInputs ==
    SavedConfigs \cup { ReorderModels(c, o) : c \in SavedConfigs, o \in ReorderInputs }

\* models.json contents the store can hold: every provider entry validated.
ConfigInputs == [KnownProviders -> ProviderConfigInputs]

\* ------------------------------------------------------------------ registry

\* The value of an environment variable: unset, or a string (its characters).
UnsetValue == [set |-> FALSE, chars |-> << >>]

KeyValue == [set |-> TRUE, chars |-> <<"k">>]

\* String.prototype.trim: white space at both ends removed.
RECURSIVE TrimStart(_)
TrimStart(chars) ==
    IF chars # << >> /\ chars[1] = " " THEN TrimStart(Tail(chars)) ELSE chars

RECURSIVE TrimEnd(_)
TrimEnd(chars) ==
    IF chars # << >> /\ chars[Len(chars)] = " "
    THEN TrimEnd(SubSeq(chars, 1, Len(chars) - 1))
    ELSE chars

Trim(chars) == TrimEnd(TrimStart(chars))

HasApiKey_NoTrim(value) == value.set /\ value.chars # << >>

\* hasApiKey: return !!value && value.trim() !== ""
HasApiKey(value) == value.set /\ value.chars # << >> /\ Trim(value.chars) # << >>

\* A provider without a row in provider_settings (settings?.find gives undefined).
NoRow == [present |-> FALSE, is_enabled |-> 0, priority |-> 0]

SettingRow(enabled, priority) ==
    [present |-> TRUE, is_enabled |-> enabled, priority |-> priority]

\* buildActiveServices: priority: setting?.priority ?? 999
DefaultPriority == 999

\* buildActiveServices: isEnabled: setting ? setting.is_enabled === 1 : true
IsEnabled(setting) == IF setting.present THEN setting.is_enabled = 1 ELSE TRUE

PriorityOf(setting) == IF setting.present THEN setting.priority ELSE DefaultPriority

\* A provider without a usable entry in models.json: it has no models.
NoEntry == [default |-> NULL, enableFallback |-> FALSE, models |-> << >>]

\* The registry keeps a provider only when it has at least one configured model.
HasModels(entry) == Len(entry.models) >= 1

\* provider_settings after the migration: every known provider has a row, with
\* priority = its position; is_enabled is what toggleProvider last wrote.
SettingsInputs ==
    { [p \in KnownProviders |->
          SettingRow(IF p \in en THEN 1 ELSE 0, ProviderPos(p))]
      : en \in SUBSET KnownProviders }

\* The environment: each provider's API-key variable is set or not.
EnvInputs == [KnownProviders -> {UnsetValue, KeyValue}]

\* Array.prototype.sort((a, b) => a.priority - b.priority), which is stable:
\* insert entry e into the sorted sequence s after every entry whose priority
\* is not greater.
RECURSIVE InsertByPriority(_, _)
InsertByPriority(e, s) ==
    IF s = << >> THEN <<e>>
    ELSE IF s[Len(s)].priority <= e.priority THEN Append(s, e)
    ELSE Append(InsertByPriority(e, SubSeq(s, 1, Len(s) - 1)), s[Len(s)])

RECURSIVE SortByPriority(_)
SortByPriority(s) ==
    IF s = << >> THEN << >>
    ELSE InsertByPriority(s[Len(s)], SortByPriority(SubSeq(s, 1, Len(s) - 1)))

\* Object.entries(providers).map(...).filter(...): the providers in the order of
\* the provider table, each with its settings, those kept that have a key and
\* are enabled (and have a model).
RECURSIVE FilterActive(_, _, _, _)
FilterActive(n, env, settings, config) ==
    IF n > Len(ProviderKeyList) THEN << >>
    ELSE LET key == ProviderKeyList[n]
             rest == FilterActive(n + 1, env, settings, config)
         IN  IF /\ key \in KnownProviders
                /\ HasApiKey(env[key])
                /\ IsEnabled(settings[key])
                /\ HasModels(config[key])
             THEN <<[key |-> key,
                     models |-> config[key].models,
                     defaultModel |-> config[key].default,
                     enableFallback |-> config[key].enableFallback,
                     priority |-> PriorityOf(settings[key])]>> \o rest
             ELSE rest

\* getActiveProviders: the providers with an API key, enabled and with at least
\* one model, by ascending priority.
GetActiveProviders(env, settings, config) ==
    SortByPriority(FilterActive(1, env, settings, config))

\* Every list the registry can hand to a dispatch.
ActiveLists ==
    { GetActiveProviders(env, settings, config) :
        env \in EnvInputs, settings \in SettingsInputs, config \in ConfigInputs }

\* ------------------------------------------------------------ dispatch core

VARIABLES
    currentProviderIndex,  \* chat_handler.ts: the process-wide round-robin index
    pc,                    \* where the handleChat call is: idle, attempt, returned, thrown
    providers,             \* handleChat: const providers = getActiveProviders()
    startIndex,            \* handleChat: const startIndex
    i,                     \* handleChat: the loop counter over providers
    mi,                    \* tryProvider: position in modelsToTry (1-based)
    lastError,             \* handleChat: let lastError
    provLastError,         \* tryProvider: let lastError
    result,                \* the ChatResult handleChat returned
    thrown,                \* the message of the error handleChat threw
    attempts,              \* history: the (provider, model) attempts of this call
    lastUpstreamError,     \* history: message of the last upstream error of this call
    onlyThrows,            \* history: every attempt of this call ended in a throw of chat/next
    indexBefore,           \* history: the round-robin index when this call began
    dispatches,            \* history: completed dispatches of the round-robin run
    chosen,                \* history: how often each provider served in the run
    stalled,               \* the pending first iterator.next() will never complete
    peer,                  \* a second handleChat call in flight: list length, start, i
    registry,              \* what the registry read for the dispatch, and the list it built
    apiKeys,               \* the rows of table api_keys
    nextId,                \* api_keys: the next AUTOINCREMENT id
    hashing,               \* validateApiKey calls awaiting hashApiKey, per presented key
    returned,              \* what the key-store operation that completed last returned
    issued,                \* history: the (key, id) pairs createApiKey returned
    retired,               \* history: the ids a revokeApiKey or deleteApiKey call changed
    request,               \* the HTTP request fetch is serving
    handler,               \* the route handler fetch passed it to
    response,              \* the response fetch returns
    configFile,            \* the content of models.json
    configCache,           \* models_config: let configCache (NoConfig for null)
    cacheAge,              \* Date.now() - configCacheTime, followed up to the TTL
    lastConfigOp,          \* history: the ModelsConfig call that completed last
    snapshot,              \* the object a reader got from getModelsConfig and still holds
    migration,             \* table _migrations, the schema, the migrate() run and its history
    providerSettings,      \* table provider_settings: the row of each provider key
    upstream,              \* the adapter's iterator: none, open, done, threw, returned
    upstreamChunks,        \* history: the chunks the adapter's iterator delivered
    combined,              \* history: the chunks the ChatResult's stream yielded
    frames,                \* the frames enqueued into the response body
    taken,                 \* how many of the frames the client has taken
    loop,                  \* the handler's loop over the stream: none, awaiting, closed
    aborted,               \* the client cancelled the response body
    readsAfterAbort,       \* history: iterator.next() calls issued after the abort
    responseId             \* const id of the running formatOpenAIStream call

callVars ==
    <<currentProviderIndex, pc, providers, startIndex, i, mi, lastError,
      provLastError, result, thrown, attempts, lastUpstreamError, onlyThrows,
      indexBefore>>

runVars == <<dispatches, chosen, stalled, peer, registry>>

\* The locals and the history of the handleChat call followed in full.
frameVars ==
    <<pc, providers, startIndex, i, mi, lastError, provLastError, result, thrown,
      attempts, lastUpstreamError, onlyThrows, indexBefore>>

dispatchVars == <<callVars, runVars>>

keyVars == <<apiKeys, nextId, hashing, returned, issued, retired>>

httpVars == <<request, handler, response>>

dbVars == <<migration, providerSettings>>

configVars == <<configFile, configCache, cacheAge, lastConfigOp, snapshot, dbVars>>

streamVars ==
    <<upstream, upstreamChunks, combined, frames, taken, loop, aborted, readsAfterAbort,
      responseId>>

vars == <<dispatchVars, keyVars, httpVars, configVars, streamVars>>

NoResult == [providerKey |-> NULL, model |-> NULL, firstChunk |-> NULL]

\* What one (provider, model) attempt can meet upstream:
\*   create_throw  createServiceWithModel throws (value = message)
\*   chat_throw    service.chat or the first iterator.next() throws (value = message)
\*   done          the stream ends before any chunk
\*   chunk         the first iterator.next() delivers value (possibly "")
FirstChunks == {"", "Hel"}

ChunkOutcomes == { [kind |-> "chunk", value |-> c] : c \in FirstChunks }

Outcomes ==
    { [kind |-> "create_throw", value |-> e] : e \in Errors }
    \cup { [kind |-> "chat_throw", value |-> e] : e \in Errors }
    \cup { [kind |-> "done", value |-> ""] }
    \cup ChunkOutcomes

\* tryModel: a ChatResult unless chat/next throws or the first result is done.
\* The value of the first chunk is not looked at.
TryModelReturnsResult(o) == o.kind = "chunk"

GetOrderedModels_ListOrder(models, defaultModel) == models

\* getOrderedModels: default first, then every entry of models that differs from it.
GetOrderedModels(models, defaultModel) ==
    <<defaultModel>> \o SelectSeq(models, LAMBDA m : m # defaultModel)

FallbackEnabled_Always(provider) == TRUE

\* tryProvider: the two tests of provider.enableFallback
FallbackEnabled(provider) == provider.enableFallback

\* tryProvider: const modelsToTry
ModelsToTry(provider) ==
    IF FallbackEnabled(provider)
    THEN GetOrderedModels(provider.models, provider.defaultModel)
    ELSE <<provider.defaultModel>>

HasNextModel_Never(provider, pos) == FALSE

\* tryProvider after a failed attempt: the loop goes on to the next model only
\* when fallback is enabled (break otherwise) and modelsToTry has one.
HasNextModel(provider, pos) ==
    FallbackEnabled(provider) /\ pos < Len(ModelsToTry(provider))

\* handleChat: currentProviderIndex = currentProviderIndex % providers.length
BoundIndex_Unbounded(index, n) == index

BoundIndex(index, n) == index % n

\* handleChat: const providerIndex = (startIndex + i) % providers.length
ProviderIndex(start, k, n) == (start + k) % n

NextProviderIndex_Stuck(providerIndex, n) == providerIndex

NextProviderIndex_FromShared(providerIndex, n) == (currentProviderIndex + 1) % n

NextProviderIndex_NoWrap(providerIndex, n) == providerIndex + 1

\* handleChat on success: currentProviderIndex = (providerIndex + 1) % providers.length
NextProviderIndex(providerIndex, n) == (providerIndex + 1) % n

\* handleChatCompletions / handleMessages: the catch block answers 503 with the
\* message of the error handleChat threw.
RouteErrorResponse(message) == [status |-> 503, message |-> message]

\* handleChat: throw lastError || new Error("All AI services failed")
ThrownMessage(err) == IF err # NULL THEN err ELSE AllFailedMessage

\* handleChat up to its first await: read the registry, bound the index, enter
\* the loop and tryProvider for the first provider.  The locals of the previous
\* call are gone.
HandleChatStart(ps) ==
    /\ pc # "attempt"
    /\ providers' = ps
    /\ attempts' = << >>
    /\ lastUpstreamError' = NULL
    /\ onlyThrows' = TRUE
    /\ indexBefore' = currentProviderIndex
    /\ result' = NoResult
    /\ lastError' = NULL
    /\ provLastError' = NULL
    /\ i' = 0
    /\ mi' = 1
    /\ IF Len(ps) = 0
       THEN /\ pc' = "thrown"
            /\ thrown' = NoProvidersMessage
            /\ startIndex' = 0
            /\ UNCHANGED currentProviderIndex
       ELSE /\ pc' = "attempt"
            /\ thrown' = NULL
            \* line 127 assigns the bounded value to the module-level index
            /\ currentProviderIndex' = BoundIndex(currentProviderIndex, Len(ps))
            /\ startIndex' = BoundIndex(currentProviderIndex, Len(ps))

\* One (provider, model) attempt and everything handleChat does until the next
\* await: tryProvider's loop body, its break/continue, and handleChat's loop.
\* When the call ends its locals (i, mi, both lastError) go out of scope.
Attempt(o) ==
    /\ pc = "attempt"
    /\ LET n == Len(providers)
           providerIndex == ProviderIndex(startIndex, i, n)
           provider == providers[providerIndex + 1]
           model == ModelsToTry(provider)[mi]
           ok == o.kind # "create_throw" /\ TryModelReturnsResult(o)
           delivered == o.kind = "chunk"
           providerError == IF o.kind = "create_throw" THEN o.value ELSE provLastError
           newLastError == IF providerError # NULL THEN providerError ELSE lastError
       IN  /\ attempts' = Append(attempts,
                 [providerKey |-> provider.key, model |-> model,
                  delivered |-> delivered])
           /\ lastUpstreamError' =
                 IF o.kind \in {"create_throw", "chat_throw"} THEN o.value
                 ELSE lastUpstreamError
           /\ onlyThrows' = (onlyThrows /\ o.kind = "chat_throw")
           /\ IF ok
              THEN \* tryProvider returns { result, lastError: null }
                   /\ pc' = "returned"
                   /\ result' = [providerKey |-> provider.key, model |-> model,
                                 firstChunk |-> o.value]
                   /\ currentProviderIndex' = NextProviderIndex(providerIndex, n)
                   /\ i' = 0 /\ mi' = 1 /\ lastError' = NULL /\ provLastError' = NULL
                   /\ UNCHANGED thrown
              ELSE IF HasNextModel(provider, mi)
              THEN \* next model of the same provider
                   /\ mi' = mi + 1
                   /\ provLastError' = providerError
                   /\ UNCHANGED <<pc, result, currentProviderIndex, i, lastError, thrown>>
              ELSE IF i + 1 < n
              THEN \* provider exhausted, next provider
                   /\ i' = i + 1
                   /\ mi' = 1
                   /\ provLastError' = NULL
                   /\ lastError' = newLastError
                   /\ UNCHANGED <<pc, result, currentProviderIndex, thrown>>
              ELSE \* every provider exhausted
                   /\ pc' = "thrown"
                   /\ thrown' = ThrownMessage(newLastError)
                   /\ i' = 0 /\ mi' = 1 /\ lastError' = NULL /\ provLastError' = NULL
                   /\ UNCHANGED <<result, currentProviderIndex>>
    /\ UNCHANGED <<providers, startIndex, indexBefore>>

\* --------------------------------------------------------- credential store

\* The keys generateApiKey can draw: "sk-" and 64 hexadecimal digits.
GeneratedKeys == {"sk-a", "sk-b", "sk-c"}

\* The strings presented to validateApiKey.
KeyInputs == GeneratedKeys \cup {"", "key-a"}

\* key.startsWith("sk-")
StartsWithSk(key) == key \in {"sk-a", "sk-b", "sk-c"}

\* hashApiKey: the SHA-256 digest of the key in hexadecimal; distinct keys of
\* KeyInputs have distinct digests.
HashApiKey(key) == <<"sha256", key>>

\* The row INSERT INTO api_keys ... RETURNING * creates: the column defaults are
\* is_active = 1, usage_count = 0, last_used_at = NULL.
NewRow(id, keyHash) ==
    [id |-> id, key_hash |-> keyHash, is_active |-> 1, usage_count |-> 0,
     last_used_at |-> NULL]

NoReturn == [op |-> NULL, key |-> NULL, id |-> 0, ok |-> FALSE]

InFlight == { k \in KeyInputs : hashing[k] > 0 }

RECURSIVE SumOver(_, _)
SumOver(f, S) ==
    IF S = {} THEN 0
    ELSE LET x == CHOOSE y \in S : TRUE IN f[x] + SumOver(f, S \ {x})

\* createApiKey: a key that was never drawn before (32 random bytes), its row
\* inserted under the next id; returns the plain key and the row.
CreateApiKey ==
    /\ nextId <= MaxKeys
    /\ \E key \in GeneratedKeys \ { e.key : e \in issued } :
          /\ apiKeys' = apiKeys \cup { NewRow(nextId, HashApiKey(key)) }
          /\ issued' = issued \cup { [key |-> key, id |-> nextId] }
          /\ returned' = [op |-> "createApiKey", key |-> key, id |-> nextId, ok |-> TRUE]
    /\ nextId' = nextId + 1
    /\ UNCHANGED <<hashing, retired>>

\* validateApiKey's first statement: a key that is empty or lacks the prefix
\* is answered null at once.
RejectedUnhashed(key) == key = "" \/ ~StartsWithSk(key)

\* validateApiKey up to its await: either the early return null, or the call
\* waits for hashApiKey.
ValidateApiKeyCall(key) ==
    /\ SumOver(hashing, KeyInputs) < MaxValidations
    /\ \A r \in apiKeys : r.usage_count + SumOver(hashing, KeyInputs) < MaxUsage
    /\ IF RejectedUnhashed(key)
       THEN /\ returned' = [op |-> "validateApiKey", key |-> key, id |-> 0, ok |-> FALSE]
            /\ UNCHANGED hashing
       ELSE /\ hashing' = [hashing EXCEPT ![key] = @ + 1]
            /\ UNCHANGED returned
    /\ UNCHANGED <<apiKeys, nextId, issued, retired>>

ActiveRowsWithHash_AnyState(rows, keyHash) == { r \in rows : r.key_hash = keyHash }

ActiveRowsWithHash_AnyActive(rows, keyHash) == { r \in rows : r.is_active = 1 }

\* SELECT * FROM api_keys WHERE key_hash = ? AND is_active = 1
ActiveRowsWithHash(rows, keyHash) ==
    { r \in rows : r.key_hash = keyHash /\ r.is_active = 1 }

TouchRow_SetOne(rows, id) ==
    { IF r.id = id
      THEN [r EXCEPT !.usage_count = 1, !.last_used_at = "now"]
      ELSE r : r \in rows }

\* UPDATE api_keys SET last_used_at = datetime('now'), usage_count = usage_count + 1
\* WHERE id = ?
TouchRow(rows, id) ==
    { IF r.id = id
      THEN [r EXCEPT !.usage_count = @ + 1, !.last_used_at = "now"]
      ELSE r : r \in rows }

\* validateApiKey after its await: the SELECT, the UPDATE of the row found, and
\* the return of that row (null when there is none).
ValidateApiKeyLookup(key) ==
    /\ hashing[key] > 0
    /\ hashing' = [hashing EXCEPT ![key] = @ - 1]
    /\ LET found == ActiveRowsWithHash(apiKeys, HashApiKey(key))
       IN  IF found # {}
           THEN LET record == CHOOSE r \in found : TRUE
                IN  /\ apiKeys' = TouchRow(apiKeys, record.id)
                    /\ returned' = [op |-> "validateApiKey", key |-> key, id |-> record.id,
                                    ok |-> TRUE]
           ELSE /\ returned' = [op |-> "validateApiKey", key |-> key, id |-> 0, ok |-> FALSE]
                /\ UNCHANGED apiKeys
    /\ UNCHANGED <<nextId, issued, retired>>

\* revokeApiKey: UPDATE api_keys SET is_active = 0 WHERE id = ?
RevokeApiKey(id) ==
    /\ apiKeys' = { IF r.id = id THEN [r EXCEPT !.is_active = 0] ELSE r : r \in apiKeys }
    /\ retired' = IF \E r \in apiKeys : r.id = id THEN retired \cup {id} ELSE retired
    \* result.changes > 0
    /\ returned' = [op |-> "revokeApiKey", key |-> NULL, id |-> id,
                    ok |-> \E r \in apiKeys : r.id = id]
    /\ UNCHANGED <<nextId, hashing, issued>>

\* deleteApiKey: DELETE FROM api_keys WHERE id = ?
DeleteApiKey(id) ==
    /\ apiKeys' = { r \in apiKeys : r.id # id }
    /\ retired' = IF \E r \in apiKeys : r.id = id THEN retired \cup {id} ELSE retired
    \* result.changes > 0
    /\ returned' = [op |-> "deleteApiKey", key |-> NULL, id |-> id,
                    ok |-> \E r \in apiKeys : r.id = id]
    /\ UNCHANGED <<nextId, hashing, issued>>

InitKeys ==
    /\ apiKeys = {}
    /\ nextId = 1
    /\ hashing = [k \in KeyInputs |-> 0]
    /\ returned = NoReturn
    /\ issued = {}
    /\ retired = {}

\* -------------------------------------------------------------- HTTP surface

Methods == {"GET", "POST", "OPTIONS"}

Paths ==
    {"/health", "/v1/models", "/v1/models/m1", "/v1/chat/completions",
     "/v1/messages", "/v1/messages/count_tokens", "/chat", "/admin"}

\* The Authorization header: absent, or "Bearer " followed by a key.
NoAuthorization == [scheme |-> "none", value |-> ""]

AuthorizationInputs ==
    { NoAuthorization,
      [scheme |-> "Bearer", value |-> "sk-a"],
      [scheme |-> "Bearer", value |-> "sk-b"] }

\* The x-api-key header ("" when absent).
XApiKeyInputs == {"", "sk-a"}

\* The request body: well-formed without a stream field, with stream: true, with
\* stream: false; not JSON, without a messages array, without max_tokens; none
\* for a request without body.
BodyInputs ==
    {"ok", "stream_true", "stream_false", "bad_json", "no_messages", "no_max_tokens",
     "max_tokens_0"}

RequestInputs ==
    { r \in [method : Methods, pathname : Paths, authorization : AuthorizationInputs,
             xApiKey : XApiKeyInputs, body : BodyInputs \cup {"none"}] :
        /\ (r.method = "POST") = (r.body # "none")
        /\ (r.authorization = NoAuthorization \/ r.xApiKey = "") }

NoRequest ==
    [method |-> NULL, pathname |-> NULL, authorization |-> NoAuthorization,
     xApiKey |-> "", body |-> "none"]

NoResponse == [status |-> 0, message |-> NULL]

\* middleware: const PUBLIC_PATHS
PublicPaths == {"/health", "/v1/models"}

\* pathname.startsWith("/v1/models/")
StartsWithModelsSlash(pathname) == pathname \in {"/v1/models/m1"}

\* middleware requiresAuth
RequiresAuth(pathname) ==
    ~(pathname \in PublicPaths) /\ ~StartsWithModelsSlash(pathname)

ExtractApiKey_XApiKeyFirst(req) ==
    IF req.xApiKey # "" THEN req.xApiKey
    ELSE IF req.authorization.scheme = "Bearer" THEN req.authorization.value
    ELSE NULL

\* middleware extractApiKey: the Bearer token of Authorization, else a non-empty
\* x-api-key, else null.
ExtractApiKey(req) ==
    IF req.authorization.scheme = "Bearer" THEN req.authorization.value
    ELSE IF req.xApiKey # "" THEN req.xApiKey
    ELSE NULL

\* middleware authenticate: authenticated exactly when a key was extracted and
\* validateApiKey finds an active row for it.
Authenticated(req, rows) ==
    LET key == ExtractApiKey(req)
    IN  /\ key # NULL
        /\ ~RejectedUnhashed(key)
        /\ ActiveRowsWithHash(rows, HashApiKey(key)) # {}

\* middleware createAuthErrorResponse
AuthErrorStatus == 401

\* fetch: the chain of route tests.
RouteOf(req) ==
    IF req.method = "OPTIONS" THEN "preflight"
    ELSE IF req.pathname = "/v1/chat/completions" /\ req.method = "POST"
         THEN "handleChatCompletions"
    ELSE IF req.pathname = "/v1/models" /\ req.method = "GET" THEN "handleModels"
    ELSE IF StartsWithModelsSlash(req.pathname) /\ req.method = "GET"
         THEN "handleModelInfo"
    ELSE IF req.pathname = "/v1/messages" /\ req.method = "POST" THEN "handleMessages"
    ELSE IF req.pathname = "/v1/messages/count_tokens" /\ req.method = "POST"
         THEN "handleCountTokens"
    ELSE IF req.pathname = "/chat" /\ req.method = "POST" THEN "handleLegacyChat"
    ELSE IF req.pathname = "/health" /\ req.method = "GET" THEN "health"
    ELSE "not_found"

RouteHandlers ==
    {"handleChatCompletions", "handleModels", "handleModelInfo", "handleMessages",
     "handleCountTokens", "handleLegacyChat", "health"}

JsonParseMessage == "JSON Parse error"

\* The max_tokens field of a body: absent, 0, or a count (1024 in the bodies
\* that carry one).
MaxTokensField(body) ==
    CASE body = "no_max_tokens" -> [present |-> FALSE, value |-> 0]
      [] body = "max_tokens_0" -> [present |-> TRUE, value |-> 0]
      [] OTHER -> [present |-> TRUE, value |-> 1024]

\* handleMessages: if (!body.max_tokens)
MaxTokensMissing(body) ==
    ~MaxTokensField(body).present \/ MaxTokensField(body).value = 0

MaxTokensMessage == "max_tokens is required"

\* What a handler answers without calling handleChat; NoResponse when it goes
\* on to handleChat.
HandlerReply(h, body) ==
    CASE h = "preflight" -> [status |-> 200, message |-> ""]
      [] h = "not_found" -> [status |-> 404, message |-> "Not found"]
      [] h \in {"handleModels", "handleModelInfo", "health"} ->
            [status |-> 200, message |-> ""]
      [] h = "handleCountTokens" ->
            IF body \in {"bad_json", "no_messages"}
            THEN [status |-> 500, message |-> "Failed to count tokens"]
            ELSE [status |-> 200, message |-> ""]
      [] h = "handleChatCompletions" ->
            IF body = "bad_json" THEN [status |-> 503, message |-> JsonParseMessage]
            ELSE IF body = "no_messages"
            THEN [status |-> 400, message |-> "messages is required and must be an array"]
            ELSE NoResponse
      [] h = "handleMessages" ->
            IF body = "bad_json" THEN [status |-> 503, message |-> JsonParseMessage]
            ELSE IF body = "no_messages"
            THEN [status |-> 400, message |-> "messages is required and must be an array"]
            ELSE IF MaxTokensMissing(body)
            THEN [status |-> 400, message |-> MaxTokensMessage]
            ELSE NoResponse
      [] h = "handleLegacyChat" ->
            IF body = "bad_json" THEN [status |-> 503, message |-> AllFailedMessage]
            ELSE NoResponse

HandlerErrorResponse_500(h, message) == [status |-> 500, message |-> message]

\* The catch block of the handler that called handleChat.
HandlerErrorResponse(h, message) ==
    IF h = "handleLegacyChat" THEN [status |-> 503, message |-> AllFailedMessage]
    ELSE RouteErrorResponse(message)

\* The response once handleChat has returned or thrown.
DispatchResponse_EarlyHeaders(h, streaming, callState, message) ==
    IF callState = "thrown" THEN HandlerErrorResponse(h, message)
    ELSE IF streaming THEN [status |-> 200, message |-> ""]
    ELSE NoResponse

\* The response once handleChat has returned or thrown: a streaming handler
\* returns its Response (status 200) as soon as handleChat has returned; a
\* handler that does not stream answers when it has collected the stream.
DispatchResponse(h, streaming, callState, message) ==
    IF callState = "returned"
    THEN IF streaming THEN [status |-> 200, message |-> ""] ELSE NoResponse
    ELSE IF callState = "thrown" THEN HandlerErrorResponse(h, message)
    ELSE NoResponse

\* ------------------------------------------------------------ response stream

\* The handlers that call handleChat.
ChatHandlers == {"handleChatCompletions", "handleMessages", "handleLegacyChat"}

\* What the upstream iterator can deliver after its first chunk.
StreamChunks == {"", "lo"}

\* const shouldStream: body.stream !== false for /v1/chat/completions,
\* body.stream === true for /v1/messages; /chat always streams.
ShouldStream(h, body) ==
    CASE h = "handleChatCompletions" -> body # "stream_false"
      [] h = "handleMessages" -> body = "stream_true"
      [] OTHER -> TRUE

CombinedYields_SkipEmpty(yielded, value) ==
    IF value = "" THEN yielded ELSE Append(yielded, value)

\* createCombinedStream: yield firstChunk, then yield every value of
\* iterator.next() until done.
CombinedYields(yielded, value) == Append(yielded, value)

Frame(kind, text) == [kind |-> kind, text |-> text]

\* generateId(): chatcmpl- and 24 characters of a fresh UUID
ResponseIds == {"chatcmpl-a", "chatcmpl-b"}

NoResponseId == "none"

\* An OpenAIChatCompletionChunk: id, choices[0].delta and finish_reason (the
\* kind), delta.content (the text).
OpenAIChunk(id, kind, text) == [kind |-> kind, text |-> text, id |-> id]

\* Math.ceil(content.length / 4)
TokensOf_Floor(content) == Len(content) \div 4

TokensOf(content) == (Len(content) + 3) \div 4

\* formatAnthropicStream: let outputTokens = 0, raised by every chunk with
\* content the loop has taken from the stream.
RECURSIVE OutputTokens(_)
OutputTokens(yielded) ==
    IF yielded = << >> THEN 0
    ELSE LET content == yielded[Len(yielded)]
         IN  OutputTokens(SubSeq(yielded, 1, Len(yielded) - 1))
                + (IF content # "" THEN TokensOf(content) ELSE 0)

\* formatOpenAIStream: let isFirst, true until a chunk with content was framed.
IsFirst(yielded) == \A n \in 1..Len(yielded) : yielded[n] = ""

\* formatOpenAIStream, loop body: a frame for a chunk with content (the first
\* one carries the role), nothing for an empty chunk.
FormatOpenAIChunk(content, isFirst, id) ==
    IF content # ""
    THEN << OpenAIChunk(id, IF isFirst THEN "chunk_role" ELSE "chunk", content) >>
    ELSE << >>

\* formatOpenAIStream after the loop: the finish_reason chunk and data: [DONE]
FormatOpenAIEnd(id) == << OpenAIChunk(id, "chunk_stop", ""), Frame("done", "[DONE]") >>

\* formatAnthropicStream before the loop
FormatAnthropicStart == << Frame("message_start", ""), Frame("content_block_start", "") >>

FormatAnthropicChunk_KeepEmpty(content) == << Frame("content_block_delta", content) >>

\* formatAnthropicStream, loop body
FormatAnthropicChunk(content) ==
    IF content # "" THEN << Frame("content_block_delta", content) >> ELSE << >>

\* formatAnthropicStream after the loop
FormatAnthropicEnd(outputTokens) ==
    << Frame("content_block_stop", ""),
       [kind |-> "message_delta", text |-> "", output_tokens |-> outputTokens],
       Frame("message_stop", "") >>

\* The frames a handler's loop enqueues before the first chunk, for one chunk,
\* and when the stream of the ChatResult ends.  /chat enqueues the chunks as
\* they are.
FramesBeforeChunks(h) ==
    IF h = "handleMessages" THEN FormatAnthropicStart ELSE << >>

FramesOfChunk(h, content, isFirst, id) ==
    CASE h = "handleChatCompletions" -> FormatOpenAIChunk(content, isFirst, id)
      [] h = "handleMessages" -> FormatAnthropicChunk(content)
      [] OTHER -> << Frame("raw", content) >>

FramesAfterChunks(h, id, yielded) ==
    CASE h = "handleChatCompletions" -> FormatOpenAIEnd(id)
      [] h = "handleMessages" -> FormatAnthropicEnd(OutputTokens(yielded))
      [] OTHER -> << >>

\* controller.enqueue on a stream the client cancelled: a TypeError by the
\* Streams standard; a runtime may also drop the bytes without complaint.
EnqueueAfterCancel == {"throws", "ignored"}

InitStream ==
    /\ upstream = "none"
    /\ upstreamChunks = << >>
    /\ combined = << >>
    /\ frames = << >>
    /\ taken = 0
    /\ loop = "none"
    /\ aborted = FALSE
    /\ readsAfterAbort = 0
    /\ responseId = NoResponseId

\* The handler from the return of handleChat to its first await on the
\* upstream iterator.  Streaming: the Response is built around a ReadableStream
\* whose start() runs at once: the formatter pulls the ChatResult's stream,
\* which yields the first chunk, the frames are enqueued, and the loop asks for
\* the next chunk.  Not streaming: format...Complete starts to collect.
StreamStarts(h, body, firstChunk) ==
    /\ upstream' = "open"
    /\ upstreamChunks' = << firstChunk >>
    /\ combined' = CombinedYields(<< >>, firstChunk)
    /\ \E id \in IF h = "handleChatCompletions" /\ ShouldStream(h, body)
                THEN ResponseIds ELSE {NoResponseId} :
          /\ responseId' = id
          /\ frames' = IF ShouldStream(h, body)
                       THEN FramesBeforeChunks(h) \o FramesOfChunk(h, firstChunk, TRUE, id)
                       ELSE << >>
    /\ taken' = 0
    /\ loop' = "awaiting"
    /\ aborted' = FALSE
    /\ readsAfterAbort' = 0

\* The pending iterator.next() delivers a chunk.  createCombinedStream yields
\* it, the formatter frames it, the loop enqueues the frames and the next
\* iterator.next() is issued; nothing on this path waits for the client.  On a
\* cancelled stream an enqueue that throws ends the loop (catch, finally
\* close); the formatter and createCombinedStream are returned, the upstream
\* iterator is not.
UpstreamYields ==
    /\ loop = "awaiting"
    /\ upstream = "open"
    /\ Len(upstreamChunks) <= MaxChunks
    /\ \E value \in StreamChunks, enqueue \in EnqueueAfterCancel :
          LET streaming == ShouldStream(handler, request.body)
              new == FramesOfChunk(handler, value, IsFirst(combined), responseId)
              onCancelled == streaming /\ aborted /\ new # << >>
              tornDown == onCancelled /\ enqueue = "throws"
          IN  /\ ~onCancelled => enqueue = "ignored"
              /\ upstreamChunks' = Append(upstreamChunks, value)
              /\ combined' = CombinedYields(combined, value)
              /\ frames' = IF streaming /\ ~aborted THEN frames \o new ELSE frames
              /\ loop' = IF tornDown THEN "closed" ELSE "awaiting"
              /\ readsAfterAbort' = IF aborted /\ ~tornDown THEN readsAfterAbort + 1
                                    ELSE readsAfterAbort
    /\ UNCHANGED <<upstream, taken, aborted, responseId, request, handler, response, dispatchVars,
                   keyVars, configVars>>

\* The pending iterator.next() answers done.  Streaming: the formatter's final
\* frames are enqueued and the controller is closed.  Not streaming: the
\* collected text is answered with status 200.
UpstreamEnds ==
    /\ loop = "awaiting"
    /\ upstream = "open"
    /\ upstream' = "done"
    /\ loop' = "closed"
    /\ LET streaming == ShouldStream(handler, request.body)
       IN  /\ frames' = IF streaming /\ ~aborted
                        THEN frames \o FramesAfterChunks(handler, responseId, combined)
                        ELSE frames
           /\ response' = IF streaming THEN response ELSE [status |-> 200, message |-> ""]
    /\ UNCHANGED <<upstreamChunks, combined, taken, aborted, readsAfterAbort, responseId,
                   request,
                   handler, dispatchVars, keyVars, configVars>>

\* The pending iterator.next() throws.  Streaming: the loop's catch logs the
\* error and finally closes the controller; the formatter never reaches its
\* final frames.  Not streaming: the handler's catch answers 503.
UpstreamThrows ==
    /\ loop = "awaiting"
    /\ upstream = "open"
    /\ upstream' = "threw"
    /\ loop' = "closed"
    /\ \E e \in Errors :
          response' = IF ShouldStream(handler, request.body) THEN response
                      ELSE HandlerErrorResponse(handler, e)
    /\ UNCHANGED <<upstreamChunks, combined, frames, taken, aborted, readsAfterAbort,
                   responseId,
                   request, handler, dispatchVars, keyVars, configVars>>

\* The client takes the next frame of the response body.
ClientReads ==
    /\ loop # "none"
    /\ ShouldStream(handler, request.body)
    /\ ~aborted
    /\ taken < Len(frames)
    /\ taken' = taken + 1
    /\ UNCHANGED <<upstream, upstreamChunks, combined, frames, loop, aborted,
                   readsAfterAbort, responseId, httpVars, dispatchVars, keyVars,
                   configVars>>

\* The client aborts, or its connection is lost, while the response is streamed:
\* the runtime cancels the ReadableStream.  The stream was built without a
\* cancel callback and no handler looks at req.signal.
ClientAborts ==
    /\ loop = "awaiting"
    /\ ShouldStream(handler, request.body)
    /\ ~aborted
    /\ aborted' = TRUE
    /\ UNCHANGED <<upstream, upstreamChunks, combined, frames, taken, loop,
                   readsAfterAbort, responseId, httpVars, dispatchVars, keyVars,
                   configVars>>

\* The active lists a request is dispatched over.
HttpActiveLists == { ps \in ActiveLists : Len(ps) <= MaxHttpActive }

\* fetch from the arrival of a request to its first await on an upstream answer
\* (or to its response when there is none): the preflight test, the route tests,
\* the handler's body checks and the start of handleChat.  No step of it reads
\* the request's key.
Fetch(req, ps) ==
    /\ request = NoRequest
    /\ pc # "attempt"
    /\ request' = req
    /\ LET h == RouteOf(req)
       IN  /\ handler' = IF h \in RouteHandlers THEN h ELSE NULL
           /\ IF HandlerReply(h, req.body) = NoResponse
              THEN /\ HandleChatStart(ps)
                   /\ response' = DispatchResponse(h, ShouldStream(h, req.body), pc', thrown')
              ELSE /\ response' = HandlerReply(h, req.body)
                   /\ UNCHANGED callVars
    /\ UNCHANGED <<runVars, keyVars, configVars, streamVars>>

\* An upstream answer to the attempt of the request being served.
UpstreamAnswersRequest ==
    /\ request # NoRequest
    /\ \E o \in Outcomes : Attempt(o)
    /\ response' = DispatchResponse(handler, ShouldStream(handler, request.body), pc', thrown')
    /\ IF pc' = "returned"
       THEN StreamStarts(handler, request.body, result'.firstChunk)
       ELSE UNCHANGED streamVars
    /\ UNCHANGED <<request, handler, runVars, keyVars, configVars>>

\* The request is over: the response was answered and, when it streamed, its
\* body was closed and taken or cancelled.  The request, the frame of the
\* handleChat call it made and its stream are gone.  The round-robin index stays.
ResponseSent ==
    /\ response # NoResponse
    /\ loop = "none" \/ (loop = "closed" /\ (aborted \/ taken = Len(frames)))
    /\ upstream' = "none"
    /\ upstreamChunks' = << >>
    /\ combined' = << >>
    /\ frames' = << >>
    /\ taken' = 0
    /\ loop' = "none"
    /\ aborted' = FALSE
    /\ readsAfterAbort' = 0
    /\ responseId' = NoResponseId
    /\ request' = NoRequest
    /\ handler' = NULL
    /\ response' = NoResponse
    /\ pc' = "idle"
    /\ providers' = << >>
    /\ startIndex' = 0
    /\ result' = NoResult
    /\ thrown' = NULL
    /\ attempts' = << >>
    /\ lastUpstreamError' = NULL
    /\ onlyThrows' = TRUE
    /\ indexBefore' = 0
    /\ UNCHANGED <<currentProviderIndex, i, mi, lastError, provLastError, runVars, keyVars,
                   configVars>>

InitHttp ==
    /\ request = NoRequest
    /\ handler = NULL
    /\ response = NoResponse

\* -------------------------------------------------- models configuration store

\* const CACHE_TTL_MS
CACHE_TTL_MS == 1000

\* The provider entry models.json ships for the provider the store is followed on.
ShippedConfig ==
    [cerebras |-> [default |-> "m1", enableFallback |-> TRUE, models |-> <<"m1", "m2">>]]

\* No configuration object (configCache = null; nothing returned or saved).
NoConfig ==
    [cerebras |-> [default |-> NULL, enableFallback |-> FALSE, models |-> << >>]]

\* Arguments handed to the operations.
ConfigKeyArgs == {"cerebras", "groq"}

ModelArgs == {"m1", "m2", ""}

\* New names given to updateModel: one the list may hold already, and a blank.
NewModelArgs == {"m2", ""}

OrderArgs ==
    { <<"m2", "m1">>, <<"m1", "m1">>, <<"m1">>, <<"m1", "m3">> }

SaveArgs ==
    { [cerebras |-> [default |-> "m2", enableFallback |-> FALSE, models |-> <<"m2", "m1">>]],
      [cerebras |-> [default |-> "m3", enableFallback |-> TRUE, models |-> <<"m1", "m2">>]] }

\* models.includes(model)
Includes(models, model) == \E n \in 1..Len(models) : models[n] = model

\* models.indexOf(model), 1-based (0 when absent)
IndexOf(models, model) ==
    IF Includes(models, model)
    THEN CHOOSE n \in 1..Len(models) :
            models[n] = model /\ \A k \in 1..(n - 1) : models[k] # model
    ELSE 0

\* models.splice(index, 1)
RemoveAt(models, index) ==
    SubSeq(models, 1, index - 1) \o SubSeq(models, index + 1, Len(models))

\* validateModelsConfig: at least one provider, and every entry validates.
ValidateModelsConfig(config) ==
    /\ DOMAIN config # {}
    /\ \A key \in DOMAIN config : ValidateProviderConfig(config[key])

\* JSON.stringify(config, null, 2) and the parse of the file by require: for an
\* object of strings, booleans and arrays of strings the text determines the value.
JsonStringify(config) == [text |-> config]

JsonParse(content) == content.text

\* getModelsConfig: is the cached object returned?
CacheValid(cache, age) == cache # NoConfig /\ age < CACHE_TTL_MS

\* getModelsConfig: the object it returns.
GetModelsConfig(fileContent, cache, age) ==
    IF CacheValid(cache, age) THEN cache ELSE JsonParse(fileContent)

\* The operations up to their call of saveModelsConfig: rejected by their own
\* checks, or the configuration object as they changed it in place.
AddModelStage(config, key, model) ==
    IF key \notin DOMAIN config \/ Includes(config[key].models, model)
    THEN [rejected |-> TRUE, config |-> config]
    ELSE [rejected |-> FALSE,
          config |-> [config EXCEPT ![key].models = Append(@, model)]]

RemoveModelStage(config, key, model) ==
    IF \/ key \notin DOMAIN config
       \/ IndexOf(config[key].models, model) = 0
       \/ Len(config[key].models) = 1
       \/ config[key].default = model
    THEN [rejected |-> TRUE, config |-> config]
    ELSE [rejected |-> FALSE,
          config |-> [config EXCEPT ![key].models =
                          RemoveAt(@, IndexOf(config[key].models, model))]]

SetDefaultModelStage(config, key, model) ==
    IF key \notin DOMAIN config \/ ~Includes(config[key].models, model)
    THEN [rejected |-> TRUE, config |-> config]
    ELSE [rejected |-> FALSE, config |-> [config EXCEPT ![key].default = model]]

ToggleFallbackStage(config, key) ==
    IF key \notin DOMAIN config
    THEN [rejected |-> TRUE, config |-> config]
    ELSE [rejected |-> FALSE,
          config |-> [config EXCEPT ![key].enableFallback = ~@]]

\* reorderModels: the two tests of the new order.
ReorderAccepts(models, newOrder) ==
    /\ Len(newOrder) = Len(models)
    /\ \A n \in 1..Len(newOrder) : Includes(models, newOrder[n])

ReorderModelsStage(config, key, newOrder) ==
    IF key \notin DOMAIN config \/ ~ReorderAccepts(config[key].models, newOrder)
    THEN [rejected |-> TRUE, config |-> config]
    ELSE [rejected |-> FALSE, config |-> [config EXCEPT ![key].models = newOrder]]

UpdateModelStage(config, key, oldModel, newModel) ==
    IF \/ key \notin DOMAIN config
       \/ IndexOf(config[key].models, oldModel) = 0
       \/ Includes(config[key].models, newModel)
    THEN [rejected |-> TRUE, config |-> config]
    ELSE [rejected |-> FALSE,
          config |-> [config EXCEPT
              ![key].models = [@ EXCEPT ![IndexOf(config[key].models, oldModel)] = newModel],
              ![key].default = IF @ = oldModel THEN newModel ELSE @]]

NoConfigOp ==
    [op |-> NULL, key |-> NULL, model |-> NULL, newOrder |-> << >>,
     outcome |-> NULL, read |-> FALSE, expected |-> NoConfig, before |-> NoConfig,
     after |-> NoConfig, wrote |-> FALSE]

CacheAfterSave_Kept(cache) == cache

\* saveModelsConfig after the write: clearConfigCache()
CacheAfterSave(cache) == NoConfig

\* One call of an operation, from its getModelsConfig to the return of its
\* saveModelsConfig.  reads: the operation starts with getModelsConfig and works
\* on the object it returned (saveModelsConfig called directly does not).
\* stage: what the operation made of that object.  A rejection by the
\* operation's own checks happens before any change; a rejection by
\* validateModelsConfig happens after the object, which is the cached one, was
\* changed.  An accepted call writes the file and clears the cache.
ConfigStep(op, key, model, newOrder, reads, stage) ==
    LET before == GetModelsConfig(configFile, configCache, cacheAge)
        loaded == reads /\ ~CacheValid(configCache, cacheAge)
        cacheRead == IF reads THEN before ELSE configCache
        ageRead == IF loaded THEN 0 ELSE cacheAge
        accepted == ~stage.rejected /\ ValidateModelsConfig(stage.config)
        cacheEnd == IF accepted THEN CacheAfterSave(cacheRead)
                    ELSE IF stage.rejected \/ ~reads THEN cacheRead
                    ELSE stage.config
        ageEnd == IF cacheEnd = NoConfig THEN 0 ELSE ageRead
        fileEnd == IF accepted THEN JsonStringify(stage.config) ELSE configFile
    IN  /\ configFile' = fileEnd
        /\ configCache' = cacheEnd
        /\ cacheAge' = ageEnd
        /\ lastConfigOp' =
              [op |-> op, key |-> key, model |-> model, newOrder |-> newOrder,
               outcome |-> IF op = "getModelsConfig" \/ accepted THEN "ok" ELSE "ConfigError",
               read |-> reads,
               expected |-> IF reads /\ lastConfigOp.wrote THEN JsonParse(configFile)
                            ELSE NoConfig,
               before |-> before,
               after |-> GetModelsConfig(fileEnd, cacheEnd, ageEnd),
               wrote |-> IF accepted THEN TRUE
                         ELSE IF reads THEN FALSE
                         ELSE lastConfigOp.wrote]
        /\ UNCHANGED <<dbVars, dispatchVars, keyVars, httpVars, streamVars>>

\* A call while no reader holds an object returned earlier.
ConfigCall(op, key, model, newOrder, reads, stage) ==
    /\ ConfigStep(op, key, model, newOrder, reads, stage)
    /\ UNCHANGED snapshot

Observed == GetModelsConfig(configFile, configCache, cacheAge)

\* getModelsConfig called on its own.
ReadsConfig ==
    ConfigCall("getModelsConfig", NULL, NULL, << >>, TRUE,
               [rejected |-> TRUE, config |-> Observed])

SavesConfig ==
    \E config \in SaveArgs :
        ConfigCall("saveModelsConfig", NULL, NULL, << >>, FALSE,
                   [rejected |-> FALSE, config |-> config])

AddsModel ==
    \E key \in ConfigKeyArgs, model \in ModelArgs :
        /\ \A k \in DOMAIN Observed : Len(Observed[k].models) < MaxModels
        /\ ConfigCall("addModel", key, model, << >>, TRUE,
                      AddModelStage(Observed, key, model))

RemovesModel ==
    \E key \in ConfigKeyArgs, model \in ModelArgs :
        ConfigCall("removeModel", key, model, << >>, TRUE,
                   RemoveModelStage(Observed, key, model))

SetsDefaultModel ==
    \E key \in ConfigKeyArgs, model \in ModelArgs :
        ConfigCall("setDefaultModel", key, model, << >>, TRUE,
                   SetDefaultModelStage(Observed, key, model))

TogglesFallback ==
    \E key \in ConfigKeyArgs :
        ConfigCall("toggleFallback", key, NULL, << >>, TRUE,
                   ToggleFallbackStage(Observed, key))

ReordersModels ==
    \E key \in ConfigKeyArgs, newOrder \in OrderArgs :
        ConfigCall("reorderModels", key, NULL, newOrder, TRUE,
                   ReorderModelsStage(Observed, key, newOrder))

UpdatesModel ==
    \E key \in ConfigKeyArgs, oldModel \in ModelArgs, newModel \in NewModelArgs :
        ConfigCall("updateModel", key, oldModel, << >>, TRUE,
                   UpdateModelStage(Observed, key, oldModel, newModel))

\* Time passes: Date.now() grows by TickMs (the age is followed up to the TTL).
TimePasses ==
    /\ configCache # NoConfig
    /\ cacheAge < CACHE_TTL_MS
    /\ cacheAge' = Min(cacheAge + TickMs, CACHE_TTL_MS)
    /\ UNCHANGED <<configFile, configCache, lastConfigOp, snapshot, dbVars, dispatchVars,
                   keyVars, httpVars, streamVars>>

\* ------------------------------------------------------------- migrations

\* loadMigrations: the files of the migrations directory, sorted by name.
MigrationFiles == <<"001", "002">>

MigrationNames == { MigrationFiles[n] : n \in 1..Len(MigrationFiles) }

\* A new database file: _migrations exists and is empty, no migration has
\* touched the schema, migrate() is not running.
\* rows: SELECT name FROM _migrations ORDER BY id; applied: the migrations whose
\* up() has changed the schema; pending: what the running migrate() has left.
\* History: upCalls and upDone count the calls of each up() and those that
\* returned; runs counts migrate() calls; settled says that a run has ended
\* without an error, settledRows and settledApplied what it left, lateRuns and
\* lateUps the runs and up() calls since.
FreshDatabase ==
    [rows |-> << >>, applied |-> {}, stage |-> "idle", pending |-> << >>,
     upCalls |-> [m \in MigrationNames |-> 0], upDone |-> [m \in MigrationNames |-> 0],
     runs |-> 0, settled |-> FALSE, settledRows |-> << >>, settledApplied |-> {},
     lateRuns |-> 0, lateUps |-> 0]

PendingMigrations_All(migrations, executed) == migrations

\* migrate: const pending = migrations.filter((m) => !executed.includes(m.name))
PendingMigrations(migrations, executed) ==
    SelectSeq(migrations, LAMBDA m : \A n \in 1..Len(executed) : executed[n] # m)

\* The run ends without an error ("No pending migrations", "All migrations
\* completed").
RunEnds(mg) ==
    [mg EXCEPT !.stage = "idle", !.pending = << >>, !.settled = TRUE,
               !.settledRows = IF mg.settled THEN @ ELSE mg.rows,
               !.settledApplied = IF mg.settled THEN @ ELSE mg.applied]

\* The run ends with the error it rethrows.
RunThrows(mg) == [mg EXCEPT !.stage = "idle", !.pending = << >>]

\* What every step of a migrate() run leaves alone.
MigrateFrame ==
    UNCHANGED <<configFile, configCache, cacheAge, lastConfigOp, snapshot,
                providerSettings, dispatchVars, keyVars, httpVars, streamVars>>

\* migrate() up to its loop: the executed names are read, the files loaded, the
\* pending ones selected; with none pending the run returns.
MigrateStarts ==
    /\ migration.stage = "idle"
    /\ migration.runs < MaxMigrateRuns
    /\ LET pending == PendingMigrations(MigrationFiles, migration.rows)
           started == [migration EXCEPT !.runs = @ + 1,
                                        !.lateRuns = IF migration.settled THEN @ + 1 ELSE @]
       IN  migration' = IF pending = << >> THEN RunEnds(started)
                        ELSE [started EXCEPT !.stage = "running", !.pending = pending]
    /\ MigrateFrame

\* One round of the loop in which up() returns and the INSERT into _migrations
\* succeeds.  up() creates its table without IF NOT EXISTS: it cannot return on
\* a schema it has already changed; the name column is UNIQUE.
UpSucceeds ==
    /\ migration.stage = "running"
    /\ LET m == Head(migration.pending)
           done == [migration EXCEPT
                       !.applied = @ \cup {m},
                       !.rows = Append(@, m),
                       !.pending = Tail(@),
                       !.upCalls[m] = @ + 1,
                       !.upDone[m] = @ + 1,
                       !.lateUps = IF migration.settled THEN @ + 1 ELSE @]
       IN  /\ m \notin migration.applied
           /\ \A n \in 1..Len(migration.rows) : migration.rows[n] # m
           /\ migration' = IF done.pending = << >> THEN RunEnds(done) ELSE done
    /\ MigrateFrame

\* up() throws (the table exists, the database is locked or cannot be written):
\* the schema stays, nothing is recorded, migrate() rethrows.
UpThrows ==
    /\ migration.stage = "running"
    /\ LET m == Head(migration.pending)
       IN  migration' =
               RunThrows([migration EXCEPT
                             !.upCalls[m] = @ + 1,
                             !.lateUps = IF migration.settled THEN @ + 1 ELSE @])
    /\ MigrateFrame

\* up() returns and the INSERT into _migrations throws: the schema is changed,
\* the name is not recorded (no transaction spans the two), migrate() rethrows.
RecordThrows ==
    /\ migration.stage = "running"
    /\ LET m == Head(migration.pending)
       IN  /\ m \notin migration.applied
           /\ migration' =
                  RunThrows([migration EXCEPT
                                !.applied = @ \cup {m},
                                !.upCalls[m] = @ + 1,
                                !.upDone[m] = @ + 1,
                                !.lateUps = IF migration.settled THEN @ + 1 ELSE @])
    /\ MigrateFrame

\* ------------------------------------------------------- provider settings

\* provider_settings before migration 002 has filled it.
EmptySettings == [key \in ProviderKeys |-> NoRow]

\* Migration 002: INSERT ... VALUES ('cerebras', 1, 1), ('groq', 1, 2),
\* ('openrouter', 1, 3), ('gemini', 1, 4)
SeededSettings == [key \in ProviderKeys |-> SettingRow(1, ProviderPos(key))]

\* The database after the first migrate() run ended without an error.
MigratedDatabase ==
    [FreshDatabase EXCEPT
        !.rows = MigrationFiles, !.applied = MigrationNames,
        !.upCalls = [m \in MigrationNames |-> 1], !.upDone = [m \in MigrationNames |-> 1],
        !.runs = 1, !.settled = TRUE, !.settledRows = MigrationFiles,
        !.settledApplied = MigrationNames]

\* The lists of provider keys an operation is called with: no key twice.
KeyLists ==
    { s \in UNION { [1..n -> ProviderKeys] : n \in 0..Cardinality(ProviderKeys) } :
        \A a, b \in 1..Len(s) : s[a] = s[b] => a = b }

RowKeys(table) == { key \in ProviderKeys : table[key].present }

\* (SELECT MAX(priority) as max FROM provider_settings)?.max ?? 0
MaxPriorityOrZero(table) ==
    IF RowKeys(table) = {} THEN 0
    ELSE CHOOSE p \in { table[key].priority : key \in RowKeys(table) } :
            \A key \in RowKeys(table) : table[key].priority <= p

NewPriority_One(table) == 1

\* ensureProviderExists without a priority: the priority of the row it inserts
NewPriority(table) == MaxPriorityOrZero(table) + 1

\* ensureProviderExists(providerKey)
EnsureProviderExists(table, key) ==
    IF table[key].present THEN table
    ELSE [table EXCEPT ![key] = SettingRow(1, NewPriority(table))]

\* syncProviders, first loop: ensureProviderExists for every key in turn
RECURSIVE EnsureAll(_, _)
EnsureAll(table, keys) ==
    IF keys = << >> THEN table
    ELSE EnsureAll(EnsureProviderExists(table, Head(keys)), Tail(keys))

\* syncProviders: the rows of the keys, then DELETE of every row whose key is
\* not among them.
SyncProviders(table, keys) ==
    LET ensured == EnsureAll(table, keys)
    IN  [key \in ProviderKeys |->
            IF \E n \in 1..Len(keys) : keys[n] = key THEN ensured[key] ELSE NoRow]

\* reorderProviders: UPDATE ... SET priority = i + 1 WHERE provider_key =
\* orderedKeys[i], for every i in turn; a key without a row changes nothing.
RECURSIVE ReorderFrom(_, _, _)
ReorderFrom(table, orderedKeys, n) ==
    IF n > Len(orderedKeys) THEN table
    ELSE LET key == orderedKeys[n]
             updated == IF table[key].present
                        THEN [table EXCEPT ![key].priority = n]
                        ELSE table
         IN  ReorderFrom(updated, orderedKeys, n + 1)

ReorderProviders(table, orderedKeys) == ReorderFrom(table, orderedKeys, 1)

\* toggleProvider: UPDATE ... SET is_enabled = ? WHERE provider_key = ?
ToggleProvider(table, key, enabled) ==
    IF table[key].present
    THEN [table EXCEPT ![key].is_enabled = IF enabled THEN 1 ELSE 0]
    ELSE table

\* getAllProviderSettings: SELECT * ... ORDER BY priority ASC.  The order of
\* rows of equal priority is not defined by the statement: every sequence of
\* the keys in ascending priority is a possible result.
GetAllProviderSettings(table) ==
    { s \in KeyLists :
        /\ { s[n] : n \in 1..Len(s) } = RowKeys(table)
        /\ \A a, b \in 1..Len(s) : a < b => table[s[a]].priority <= table[s[b]].priority }

\* What every provider_settings operation leaves alone.
SettingsFrame ==
    UNCHANGED <<configFile, configCache, cacheAge, lastConfigOp, snapshot, migration,
                dispatchVars, keyVars, httpVars, streamVars>>

\* syncProviders(providerKeys), as setup, status and the provider menu call it.
SyncsProviders ==
    /\ \E keys \in KeyLists :
          /\ MaxPriorityOrZero(EnsureAll(providerSettings, keys)) <= MaxPriority
          /\ providerSettings' = SyncProviders(providerSettings, keys)
    /\ SettingsFrame

\* reorderProviders(orderedKeys) called with any list of keys.
ReordersProviders ==
    /\ \E orderedKeys \in KeyLists :
          /\ providerSettings' = ReorderProviders(providerSettings, orderedKeys)
    /\ SettingsFrame

\* toggleProvider(providerKey, enabled)
TogglesProvider ==
    /\ \E key \in ProviderKeys, enabled \in BOOLEAN :
          /\ providerSettings' = ToggleProvider(providerSettings, key, enabled)
    /\ SettingsFrame

\* The provider menu's change of order: getProviderStatuses syncs the table
\* with the provider table, changeOrderMenu offers the providers that have an
\* API key and are enabled, and reorderProviders gets those in the order the
\* user typed (a permutation; anything else is refused before).  The providers
\* with an API key are any set: orderedKeys is any list of enabled providers.
ChangesOrder ==
    /\ \E orderedKeys \in KeyLists :
          LET synced == SyncProviders(providerSettings, ProviderKeyList)
          IN  /\ MaxPriorityOrZero(synced) <= MaxPriority
              /\ orderedKeys # << >>
              /\ \A n \in 1..Len(orderedKeys) : synced[orderedKeys[n]].is_enabled = 1
              /\ providerSettings' = ReorderProviders(synced, orderedKeys)
    /\ SettingsFrame

\* ------------------------------------------- a reader holding a configuration

\* No reader holds a configuration object.
NoSnapshot ==
    [held |-> FALSE, taken |-> NoConfig, now |-> NoConfig, isCache |-> FALSE, calls |-> 0]

\* A reader calls getModelsConfig and keeps what it returned: the cached object,
\* or the freshly loaded one, which is the cached object from then on.
\* taken: its contents at the return; now: its contents as the reader sees them;
\* calls: the operations called since.
ReaderReads ==
    /\ ~snapshot.held
    /\ ConfigStep("getModelsConfig", NULL, NULL, << >>, TRUE,
                  [rejected |-> TRUE, config |-> Observed])
    /\ snapshot' = [held |-> TRUE, taken |-> Observed, now |-> Observed,
                    isCache |-> TRUE, calls |-> 0]

\* An operation called while the reader holds its object.  The operation works
\* on what getModelsConfig returns to it: the reader's object when that is
\* still the valid cache, a fresh one otherwise.  It changes the object in
\* place (push, splice, assignment) and hands it to saveModelsConfig, which
\* clears the cache after a write.
HeldCall(op, key, model, newOrder, stage) ==
    /\ snapshot.held
    /\ snapshot.calls < MaxHeldCalls
    /\ ConfigStep(op, key, model, newOrder, TRUE, stage)
    /\ LET sameObject == snapshot.isCache /\ CacheValid(configCache, cacheAge)
           accepted == ~stage.rejected /\ ValidateModelsConfig(stage.config)
       IN  snapshot' =
               [snapshot EXCEPT
                   !.now = IF sameObject /\ ~stage.rejected THEN stage.config ELSE @,
                   !.isCache = sameObject /\ ~accepted,
                   !.calls = @ + 1]

AddsModelHeld ==
    \E key \in ConfigKeyArgs, model \in ModelArgs :
        /\ \A k \in DOMAIN Observed : Len(Observed[k].models) < MaxModels
        /\ HeldCall("addModel", key, model, << >>, AddModelStage(Observed, key, model))

RemovesModelHeld ==
    \E key \in ConfigKeyArgs, model \in ModelArgs :
        HeldCall("removeModel", key, model, << >>, RemoveModelStage(Observed, key, model))

SetsDefaultModelHeld ==
    \E key \in ConfigKeyArgs, model \in ModelArgs :
        HeldCall("setDefaultModel", key, model, << >>,
                 SetDefaultModelStage(Observed, key, model))

TogglesFallbackHeld ==
    \E key \in ConfigKeyArgs :
        HeldCall("toggleFallback", key, NULL, << >>, ToggleFallbackStage(Observed, key))

ReordersModelsHeld ==
    \E key \in ConfigKeyArgs, newOrder \in OrderArgs :
        HeldCall("reorderModels", key, NULL, newOrder,
                 ReorderModelsStage(Observed, key, newOrder))

UpdatesModelHeld ==
    \E key \in ConfigKeyArgs, oldModel \in ModelArgs, newModel \in NewModelArgs :
        HeldCall("updateModel", key, oldModel, << >>,
                 UpdateModelStage(Observed, key, oldModel, newModel))

InitModelsStore ==
    /\ configFile = JsonStringify(ShippedConfig)
    /\ configCache = NoConfig
    /\ cacheAge = 0
    /\ lastConfigOp = NoConfigOp
    /\ snapshot = NoSnapshot

InitDatabase ==
    /\ migration = FreshDatabase
    /\ providerSettings = EmptySettings

InitMigratedDatabase ==
    /\ migration = MigratedDatabase
    /\ providerSettings = SeededSettings

InitConfig == InitModelsStore /\ InitDatabase

InitCall ==
    /\ currentProviderIndex = 0
    /\ pc = "idle"
    /\ providers = << >>
    /\ startIndex = 0
    /\ i = 0
    /\ mi = 1
    /\ lastError = NULL
    /\ provLastError = NULL
    /\ result = NoResult
    /\ thrown = NULL
    /\ attempts = << >>
    /\ lastUpstreamError = NULL
    /\ onlyThrows = TRUE
    /\ indexBefore = 0

\* Nothing has been read from the environment, the settings table or models.json.
NoRegistry ==
    [env |-> [p \in KnownProviders |-> UnsetValue],
     settings |-> [p \in KnownProviders |-> NoRow],
     config |-> [p \in KnownProviders |-> NoEntry],
     list |-> << >>,
     built |-> FALSE]

\* No second call is in flight.  History: overlap, the two calls read the index
\* one after the other with no store to it in between, over lists of one length;
\* peerRan, a second call has run since the first call's last start; mainRan,
\* the first call has been in flight since the second call's last start.
NoPeer ==
    [pc |-> "idle", n |-> 0, start |-> 0, i |-> 0, overlap |-> FALSE, peerRan |-> FALSE,
     mainRan |-> FALSE]

InitRun ==
    /\ dispatches = 0
    /\ chosen = [p \in KnownProviders |-> 0]
    /\ stalled = FALSE
    /\ peer = NoPeer
    /\ registry = NoRegistry

Init == InitCall /\ InitRun /\ InitKeys /\ InitHttp /\ InitConfig /\ InitStream

\* A dispatch reads a fresh registry view; the registry's inputs (environment,
\* settings table, models.json) are whatever the stores hold at that moment.
Dispatch ==
    /\ \E ps \in ActiveLists : HandleChatStart(ps)
    /\ UNCHANGED <<runVars, keyVars, httpVars, configVars, streamVars>>

UpstreamAnswers ==
    /\ \E o \in Outcomes : Attempt(o)
    /\ UNCHANGED <<runVars, keyVars, httpVars, configVars, streamVars>>

Next == Dispatch \/ UpstreamAnswers

Spec == Init /\ [][Next]_vars

\* ------------------------------------------------ upstreams that never answer

\* The upstream of the pending attempt has accepted the request and will never
\* send anything: the await on iterator.next() in tryModel does not complete.
UpstreamStalls ==
    /\ pc = "attempt"
    /\ ~stalled
    /\ stalled' = TRUE
    /\ UNCHANGED <<callVars, dispatches, chosen, peer, registry, keyVars, httpVars, configVars,
                   streamVars>>

\* An upstream answer to a read that is not stalled.  tryModel sets no timer and
\* hands no signal to the adapter: nothing else ends the await.
UpstreamAnswersInTime ==
    /\ ~stalled
    /\ UpstreamAnswers

NextDeadline == Dispatch \/ UpstreamAnswersInTime \/ UpstreamStalls

\* The runtime resumes handleChat whenever the awaited read has completed.
SpecDeadline == Init /\ [][NextDeadline]_vars /\ WF_vars(UpstreamAnswersInTime)

\* ------------------------------------------------ two calls in flight at once

\* The lists the call followed in full gets here: one attempt per provider.
ConcurrentLists ==
    { ps \in ActiveLists : \A k \in 1..Len(ps) : ~FallbackEnabled(ps[k]) }

\* The lengths of the non-empty lists the registry can hand to the second call.
PeerLengths == { Len(ps) : ps \in ActiveLists } \ {0}

DispatchConcurrent ==
    /\ \E ps \in ConcurrentLists :
          /\ HandleChatStart(ps)
          /\ peer' = [peer EXCEPT
                         !.overlap = peer.pc = "attempt" /\ ~peer.mainRan /\ peer.n = Len(ps),
                         !.peerRan = peer.pc = "attempt",
                         !.mainRan = TRUE]
    /\ UNCHANGED <<dispatches, chosen, stalled, registry, keyVars, httpVars, configVars,
                   streamVars>>

\* The second call runs handleChat up to its first await: it reads its own
\* list, bounds and stores the shared index and takes its start from it.
PeerStarts ==
    /\ peer.pc # "attempt"
    /\ \E n \in PeerLengths :
          /\ currentProviderIndex' = BoundIndex(currentProviderIndex, n)
          /\ peer' = [pc |-> "attempt", n |-> n,
                      start |-> BoundIndex(currentProviderIndex, n), i |-> 0,
                      overlap |-> pc = "attempt" /\ ~peer.peerRan /\ Len(providers) = n,
                      peerRan |-> TRUE,
                      mainRan |-> pc = "attempt"]
    /\ UNCHANGED <<frameVars, dispatches, chosen, stalled, registry, keyVars, httpVars,
                   configVars, streamVars>>

\* The provider the second call is trying delivered: the call stores the index
\* that follows it in its own list and returns.
PeerSucceeds ==
    /\ peer.pc = "attempt"
    /\ currentProviderIndex' =
           NextProviderIndex(ProviderIndex(peer.start, peer.i, peer.n), peer.n)
    /\ peer' = [peer EXCEPT !.pc = "returned"]
    /\ UNCHANGED <<frameVars, dispatches, chosen, stalled, registry, keyVars, httpVars,
                   configVars, streamVars>>

\* The provider the second call is trying failed on every model: the call goes
\* on to its next provider, or throws when it has none left.
PeerFails ==
    /\ peer.pc = "attempt"
    /\ peer' = IF peer.i + 1 < peer.n THEN [peer EXCEPT !.i = @ + 1]
               ELSE [NoPeer EXCEPT !.peerRan = peer.peerRan, !.mainRan = peer.mainRan]
    /\ UNCHANGED <<callVars, dispatches, chosen, stalled, registry, keyVars, httpVars,
                   configVars, streamVars>>

NextConcurrent ==
    DispatchConcurrent \/ UpstreamAnswers \/ PeerStarts \/ PeerSucceeds \/ PeerFails

SpecConcurrent == Init /\ [][NextConcurrent]_vars

\* ------------------------------------------------ the registry feeding a dispatch

\* What an API-key variable can hold: nothing, "", " ", "k".
EnvValueInputs ==
    {UnsetValue, [set |-> TRUE, chars |-> << >>], [set |-> TRUE, chars |-> <<" ">>],
     KeyValue}

\* The priorities a row can carry: reorderProviders writes 1, 2, ..., also to a
\* part of the rows; updateProviderPriority writes any number.
PriorityInputs == {1, 2, 1000}

\* The entry of a provider that has models.
ModelsEntry == [default |-> "m1", enableFallback |-> FALSE, models |-> <<"m1", "m2">>]

\* What the registry can find: any value in each variable, a row or none with
\* either is_enabled, an entry or none (the migration's priorities); and, with
\* every key set and every entry there, rows of any priority or none.
RegistryInputs ==
    { [NoRegistry EXCEPT !.env = env, !.settings = settings, !.config = config] :
        env \in [KnownProviders -> EnvValueInputs],
        settings \in { [p \in KnownProviders |->
                            IF p \in rowless THEN NoRow
                            ELSE SettingRow(IF p \in en THEN 1 ELSE 0, ProviderPos(p))] :
                         rowless \in SUBSET KnownProviders, en \in SUBSET KnownProviders },
        config \in [KnownProviders -> {NoEntry, ModelsEntry}] }
    \cup
    { [NoRegistry EXCEPT !.env = [p \in KnownProviders |-> KeyValue],
                         !.settings = settings,
                         !.config = [p \in KnownProviders |-> ModelsEntry]] :
        settings \in [KnownProviders ->
                         {NoRow} \cup { SettingRow(1, n) : n \in PriorityInputs }] }

\* handleChat reads the registry: the list is built from what the environment,
\* the settings table and models.json hold at that moment.
DispatchFromRegistry ==
    /\ ~registry.built
    /\ LET list == GetActiveProviders(registry.env, registry.settings, registry.config)
       IN  /\ registry' = [registry EXCEPT !.list = list, !.built = TRUE]
           /\ HandleChatStart(list)
    /\ UNCHANGED <<dispatches, chosen, stalled, peer, keyVars, httpVars, configVars,
                   streamVars>>

InitRegistry ==
    /\ InitCall
    /\ dispatches = 0
    /\ chosen = [p \in KnownProviders |-> 0]
    /\ stalled = FALSE
    /\ peer = NoPeer
    /\ registry \in RegistryInputs
    /\ InitKeys
    /\ InitHttp
    /\ InitConfig
    /\ InitStream

NextRegistry == DispatchFromRegistry \/ UpstreamAnswers

SpecRegistry == InitRegistry /\ [][NextRegistry]_vars

\* ------------------------------------------------- round-robin run (no failures)

\* The registry answers the list it answered before: the active set is stable.
DispatchStable ==
    /\ dispatches < MaxDispatches
    /\ HandleChatStart(providers)
    /\ UNCHANGED <<runVars, keyVars, httpVars, configVars, streamVars>>

\* Every attempt delivers a first chunk; the run counts who served.
UpstreamDelivers ==
    /\ \E o \in ChunkOutcomes : Attempt(o)
    /\ dispatches' = dispatches + 1
    /\ chosen' = [chosen EXCEPT ![result'.providerKey] = @ + 1]
    /\ UNCHANGED <<stalled, peer, registry>>
    /\ UNCHANGED <<keyVars, httpVars, configVars, streamVars>>

\* The index is whatever earlier dispatches left: any value below the number of
\* providers.  The active list is any non-empty list of the registry.
InitRoundRobin ==
    /\ currentProviderIndex \in 0..(NumProviders - 1)
    /\ providers \in { ps \in ActiveLists : Len(ps) > 0 }
    /\ pc = "idle"
    /\ startIndex = 0
    /\ i = 0
    /\ mi = 1
    /\ lastError = NULL
    /\ provLastError = NULL
    /\ result = NoResult
    /\ thrown = NULL
    /\ attempts = << >>
    /\ lastUpstreamError = NULL
    /\ onlyThrows = TRUE
    /\ indexBefore = 0
    /\ InitRun
    /\ InitKeys
    /\ InitHttp
    /\ InitConfig
    /\ InitStream

NextRR == DispatchStable \/ UpstreamDelivers

SpecRR == InitRoundRobin /\ [][NextRR]_vars

\* ------------------------------------------------- the credential store alone

CreatesKey == CreateApiKey /\ UNCHANGED <<dispatchVars, httpVars, configVars, streamVars>>

ValidationArrives ==
    /\ \E key \in KeyInputs : ValidateApiKeyCall(key)
    /\ UNCHANGED <<dispatchVars, httpVars, configVars, streamVars>>

ValidationLooksUp ==
    /\ \E key \in KeyInputs : ValidateApiKeyLookup(key)
    /\ UNCHANGED <<dispatchVars, httpVars, configVars, streamVars>>

RevokesKey ==
    /\ \E id \in 1..MaxKeys : RevokeApiKey(id)
    /\ UNCHANGED <<dispatchVars, httpVars, configVars, streamVars>>

DeletesKey ==
    /\ \E id \in 1..MaxKeys : DeleteApiKey(id)
    /\ UNCHANGED <<dispatchVars, httpVars, configVars, streamVars>>

NextKeys == CreatesKey \/ ValidationArrives \/ ValidationLooksUp \/ RevokesKey \/ DeletesKey

SpecKeys == Init /\ [][NextKeys]_vars

\* ------------------------------------------------- the authentication middleware

\* Headers as req.headers.get returns them: a value never ends in white space,
\* so an Authorization value that starts with "Bearer " has a non-empty rest.
AuthHeaderInputs ==
    AuthorizationInputs \cup
        { [scheme |-> "Bearer", value |-> "key-a"], [scheme |-> "Basic", value |-> "sk-a"] }

AuthRequests ==
    [method : {"POST"}, pathname : {"/v1/chat/completions"},
     authorization : AuthHeaderInputs, xApiKey : {"", "sk-a", "sk-b"}, body : {"ok"}]

MissingKeyMessage == "Missing API key"

InvalidKeyMessage == "Invalid API key"

\* An AuthResult, as the response createAuthErrorResponse makes of its error;
\* status 200 for authenticated: true.
AuthFailed(error) == [status |-> AuthErrorStatus, message |-> error]

AuthPassed == [status |-> 200, message |-> ""]

\* authenticate up to its await on validateApiKey.
Authenticate(req) ==
    /\ request = NoRequest
    /\ request' = req
    /\ LET key == ExtractApiKey(req)
       IN  IF key = NULL \/ key = ""
           THEN /\ response' = AuthFailed(MissingKeyMessage)
                /\ UNCHANGED keyVars
           ELSE /\ ValidateApiKeyCall(key)
                /\ response' = IF RejectedUnhashed(key) THEN AuthFailed(InvalidKeyMessage)
                                ELSE NoResponse

AuthenticateArrives ==
    /\ \E req \in AuthRequests : Authenticate(req)
    /\ UNCHANGED <<handler, dispatchVars, configVars, streamVars>>

\* authenticate after validateApiKey has answered.
AuthenticateResumes ==
    /\ request # NoRequest
    /\ response = NoResponse
    /\ ValidateApiKeyLookup(ExtractApiKey(request))
    /\ response' = IF returned'.ok THEN AuthPassed ELSE AuthFailed(InvalidKeyMessage)
    /\ UNCHANGED <<request, handler, dispatchVars, configVars, streamVars>>

\* The caller has taken the AuthResult.
AuthResultTaken ==
    /\ request # NoRequest
    /\ response # NoResponse
    /\ request' = NoRequest
    /\ response' = NoResponse
    /\ UNCHANGED <<handler, dispatchVars, keyVars, configVars, streamVars>>

NextAuth ==
    CreatesKey \/ RevokesKey \/ DeletesKey \/ AuthenticateArrives \/ AuthenticateResumes
        \/ AuthResultTaken

SpecAuth == Init /\ [][NextAuth]_vars

\* ------------------------------------------- the configuration store alone

NextConfig ==
    \/ ReadsConfig \/ SavesConfig \/ AddsModel \/ RemovesModel \/ SetsDefaultModel
    \/ TogglesFallback \/ ReordersModels \/ UpdatesModel \/ TimePasses

SpecConfig == Init /\ [][NextConfig]_vars

NextMigrate == MigrateStarts \/ UpSucceeds \/ UpThrows \/ RecordThrows

SpecMigrate == Init /\ [][NextMigrate]_vars

NextSnapshot ==
    \/ ReaderReads \/ AddsModelHeld \/ RemovesModelHeld \/ SetsDefaultModelHeld
    \/ TogglesFallbackHeld \/ ReordersModelsHeld \/ UpdatesModelHeld
    \/ TimePasses

SpecSnapshot == Init /\ [][NextSnapshot]_vars

\* ------------------------------------------- the provider settings alone

InitMigrated ==
    InitCall /\ InitRun /\ InitKeys /\ InitHttp /\ InitModelsStore /\ InitMigratedDatabase
        /\ InitStream

NextSettings == SyncsProviders \/ ReordersProviders \/ TogglesProvider \/ ChangesOrder

SpecSettings == InitMigrated /\ [][NextSettings]_vars

\* ------------------------------------------------------ the HTTP surface alone

\* The key store the server runs against: key "sk-a" issued and active, key
\* "sk-b" issued and revoked, "sk-c" never issued.
InitHttpKeys ==
    /\ apiKeys = { NewRow(1, HashApiKey("sk-a")),
                   [NewRow(2, HashApiKey("sk-b")) EXCEPT !.is_active = 0] }
    /\ nextId = 3
    /\ hashing = [k \in KeyInputs |-> 0]
    /\ returned = [op |-> "revokeApiKey", key |-> NULL, id |-> 2, ok |-> TRUE]
    /\ issued = { [key |-> "sk-a", id |-> 1], [key |-> "sk-b", id |-> 2] }
    /\ retired = {2}

RequestArrives ==
    \E req \in RequestInputs : \E ps \in HttpActiveLists : Fetch(req, ps)

\* The HTTP surface up to the answer of a handler: a request is followed until
\* its handler has answered or has begun to stream or collect the ChatResult.
NextHttp == RequestArrives \/ UpstreamAnswersRequest \/ ResponseSent

InitServer == InitCall /\ InitRun /\ InitHttpKeys /\ InitHttp /\ InitConfig /\ InitStream

SpecHttp == InitServer /\ [][NextHttp]_vars

\* ------------------------------------------------- chat requests and their streams

\* Chat requests of a client that presents the active key.
StreamRequestInputs ==
    { r \in RequestInputs :
        /\ RouteOf(r) \in ChatHandlers
        /\ r.body \in {"ok", "stream_true", "stream_false"}
        /\ r.authorization = [scheme |-> "Bearer", value |-> "sk-a"] }

\* The active lists of a deployment with the first provider's key only.
StreamActiveLists ==
    { ps \in HttpActiveLists : \A n \in 1..Len(ps) : ps[n].key = ProviderKeyList[1] }

ChatRequestArrives ==
    \E req \in StreamRequestInputs : \E ps \in StreamActiveLists : Fetch(req, ps)

NextStream ==
    \/ ChatRequestArrives
    \/ UpstreamAnswersRequest
    \/ UpstreamYields
    \/ UpstreamEnds
    \/ UpstreamThrows
    \/ ClientReads
    \/ ClientAborts
    \/ ResponseSent

SpecStream == InitServer /\ [][NextStream]_vars

\* ------------------------------------------------------------------- claims

\* The order the claims give: default first, then the other entries of models
\* in list order.
RECURSIVE WithoutModel(_, _)
WithoutModel(models, m) ==
    IF models = << >> THEN << >>
    ELSE IF Head(models) = m THEN WithoutModel(Tail(models), m)
    ELSE <<Head(models)>> \o WithoutModel(Tail(models), m)

ClaimedModelOrder(provider) ==
    IF provider.enableFallback
    THEN <<provider.defaultModel>> \o WithoutModel(provider.models, provider.defaultModel)
    ELSE <<provider.defaultModel>>

RECURSIVE ClaimedAttemptOrder(_, _, _)
ClaimedAttemptOrder(ps, start, k) ==
    IF k >= Len(ps) THEN << >>
    ELSE LET p == ps[((start + k) % Len(ps)) + 1]
             order == ClaimedModelOrder(p)
         IN  [n \in 1..Len(order) |-> [providerKey |-> p.key, model |-> order[n]]]
             \o ClaimedAttemptOrder(ps, start, k + 1)

AttemptsOf(key) == SelectSeq(attempts, LAMBDA a : a.providerKey = key)

ProviderOf(key) == CHOOSE p \in { providers[n] : n \in 1..Len(providers) } : p.key = key

ActiveKeys == { providers[n].key : n \in 1..Len(providers) }

AttemptsFollow(order) ==
    /\ Len(attempts) <= Len(order)
    /\ \A n \in 1..Len(attempts) :
          /\ attempts[n].providerKey = order[n].providerKey
          /\ attempts[n].model = order[n].model

\* C1: a returned ChatResult is the one of the first (provider, model) pair of
\* the attempt order that delivered a first chunk; every earlier pair was
\* attempted and did not deliver, and no error is surfaced.  A dispatch that
\* throws has attempted the whole order without any pair delivering.
C1_FirstDeliveringPairServes ==
    LET order == ClaimedAttemptOrder(providers, startIndex, 0)
        k == Len(attempts)
    IN  /\ pc = "returned" =>
              /\ k >= 1
              /\ AttemptsFollow(order)
              /\ \A n \in 1..(k - 1) : ~attempts[n].delivered
              /\ attempts[k].delivered
              /\ result.providerKey = order[k].providerKey
              /\ result.model = order[k].model
              /\ thrown = NULL
        /\ (pc = "thrown" /\ Len(providers) > 0) =>
              /\ AttemptsFollow(order)
              /\ k = Len(order)
              /\ \A n \in 1..k : ~attempts[n].delivered

\* C1 witness: a result served after fallback across models and providers.
C1_Witness ==
    /\ pc = "returned"
    /\ Len(attempts) >= 3
    /\ result.providerKey # attempts[1].providerKey

\* C2: in a run of N dispatches without failures over a stable active list of
\* size K, every provider of the list served floor(N/K) or ceil(N/K) times.
C2_RoundRobinFair ==
    LET K == Len(providers)
        N == dispatches
    IN  \A p \in KnownProviders :
           IF p \in ActiveKeys
           THEN chosen[p] \in { N \div K, (N + K - 1) \div K }
           ELSE chosen[p] = 0

\* C2 witness: a run over three providers, started off index 0, that has gone
\* round once and into the second round.
C2_Witness ==
    /\ Len(providers) = NumProviders
    /\ dispatches = NumProviders + 1
    /\ pc = "returned"
    /\ chosen[providers[1].key] = 1

\* C3 (as claimed): a ChatResult is returned only when the first chunk obtained
\* from the adapter is a non-empty string.
C3_FirstChunkNonEmpty ==
    pc = "returned" => result.firstChunk # ""

\* C4 (as claimed): when every attempt of a dispatch fails because the adapter
\* throws, handleChat fails with the message of the last upstream error, and the
\* route answers 503 with that message.
C4_LastUpstreamErrorSurfaced ==
    (pc = "thrown" /\ Len(providers) > 0 /\ onlyThrows) =>
        /\ thrown = lastUpstreamError
        /\ RouteErrorResponse(thrown) = [status |-> 503, message |-> lastUpstreamError]

\* The paths the claim names as needing a key.
ProtectedPaths ==
    {"/v1/chat/completions", "/v1/messages", "/v1/messages/count_tokens", "/chat"}

\* C5 (as claimed): a request reaches its route handler if and only if its path
\* is public or it presents a key that validates; a request routed to one of
\* the protected paths without a valid active key is answered 401 and starts
\* no dispatch.
C5_HandlerOnlyWithValidKey ==
    request # NoRequest =>
        LET valid == Authenticated(request, apiKeys)
            public == ~RequiresAuth(request.pathname)
        IN  /\ RouteOf(request) \in RouteHandlers =>
                  ((handler # NULL) <=> (public \/ valid))
            /\ (RouteOf(request) \in RouteHandlers
                  /\ request.pathname \in ProtectedPaths /\ ~valid) =>
                  /\ response.status = AuthErrorStatus
                  /\ pc = "idle"
                  /\ attempts = << >>

\* The record the claim expects validateApiKey(key) to return (0 for null): the
\* id createApiKey issued the key under, unless that row was revoked or deleted.
ClaimedRecord(key) ==
    IF \E e \in issued : e.key = key /\ e.id \notin retired
    THEN (CHOOSE e \in issued : e.key = key /\ e.id \notin retired).id
    ELSE 0

\* C6: whenever validateApiKey(k) returns, it returns the row createApiKey
\* issued k under if that row has been neither revoked nor deleted, and null
\* otherwise: after a revocation, after a deletion, and for every string
\* createApiKey never returned.
C6_ValidUntilRevoked ==
    returned.op = "validateApiKey" =>
        /\ returned.id = ClaimedRecord(returned.key)
        /\ returned.ok = (ClaimedRecord(returned.key) # 0)
        /\ returned.id # 0 =>
              \E r \in apiKeys :
                  r.id = returned.id /\ r.key_hash = HashApiKey(returned.key)

\* C6 witness: a key that validated while active (its row counts a use) is
\* answered null after its row, still in the table, was revoked.
C6_Witness ==
    /\ returned.op = "validateApiKey"
    /\ returned.id = 0
    /\ \E e \in issued :
          /\ e.key = returned.key
          /\ \E r \in apiKeys : r.id = e.id /\ r.is_active = 0 /\ r.usage_count >= 1

\* C7 (as claimed): no (provider, model) pair is attempted twice in one dispatch.
C7_NoPairAttemptedTwice ==
    \A a, b \in 1..Len(attempts) :
        (attempts[a].providerKey = attempts[b].providerKey
            /\ attempts[a].model = attempts[b].model) => a = b

\* C8 (as claimed): a dispatch ends after at most one attempt per (provider,
\* model) pair of its active list.
C8_EndsWithinOneAttemptPerPair ==
    pc \in {"returned", "thrown"} =>
        Len(attempts) <= Cardinality(UNION
            { { <<providers[n].key, providers[n].models[m]>> :
                    m \in 1..Len(providers[n].models) } : n \in 1..Len(providers) })

\* C9: a provider with enableFallback = false gets at most one attempt in a
\* dispatch, and that attempt is its default model.
C9_NoFallbackOneAttempt ==
    \A key \in ActiveKeys :
        ~ProviderOf(key).enableFallback =>
            /\ Len(AttemptsOf(key)) <= 1
            /\ \A n \in 1..Len(AttemptsOf(key)) :
                  AttemptsOf(key)[n].model = ProviderOf(key).defaultModel

\* C9 witness: building the adapter of a provider without fallback threw, and
\* the dispatch has moved on to the next provider.
C9_Witness ==
    /\ pc = "attempt"
    /\ i = 1
    /\ Len(attempts) = 1
    /\ ~ProviderOf(attempts[1].providerKey).enableFallback
    /\ lastError # NULL

\* C10: for a provider with enableFallback = true the models attempted are a
\* prefix of [default, then the other entries of models in list order], and no
\* model is attempted after one that delivered.
C10_FallbackOrderPrefix ==
    /\ \A key \in ActiveKeys :
          ProviderOf(key).enableFallback =>
              LET tried == AttemptsOf(key)
                  order == ClaimedModelOrder(ProviderOf(key))
              IN  /\ Len(tried) <= Len(order)
                  /\ \A n \in 1..Len(tried) : tried[n].model = order[n]
    /\ \A n \in 1..(Len(attempts) - 1) : ~attempts[n].delivered

\* C10 witness: a provider whose default is not the first entry of models has
\* had its default and two further models attempted.
C10_Witness ==
    \E key \in ActiveKeys :
        /\ ProviderOf(key).enableFallback
        /\ ProviderOf(key).models[1] # ProviderOf(key).defaultModel
        /\ Len(AttemptsOf(key)) = 3

\* C12: a request whose handler calls handleChat while the registry returns an
\* empty active list fails at once with the no-providers error: no attempt is
\* made (no adapter built or called) and the route answers 503.
C12_NoProvidersFailsAtOnce ==
    (/\ request # NoRequest
     /\ HandlerReply(RouteOf(request), request.body) = NoResponse
     /\ providers = << >>) =>
        /\ pc = "thrown"
        /\ thrown = NoProvidersMessage
        /\ attempts = << >>
        /\ response.status = 503
        /\ handler # "handleLegacyChat" => response.message = NoProvidersMessage

\* C12 witness: POST /v1/chat/completions answered while no provider is active.
C12_Witness ==
    /\ handler = "handleChatCompletions"
    /\ providers = << >>
    /\ pc = "thrown"
    /\ response.status = 503

\* C13: the first getModelsConfig after a saveModelsConfig that completed
\* successfully (directly or at the end of an operation), however much later
\* it is called, returns a configuration equal to the one saved.
C13_ReadAfterSave ==
    (lastConfigOp.read /\ lastConfigOp.expected # NoConfig) =>
        lastConfigOp.before = lastConfigOp.expected

\* C13 witness: a configuration was saved directly while the cache held the
\* older one, and the following read returned the saved one.
C13_Witness ==
    /\ lastConfigOp.op = "getModelsConfig"
    /\ lastConfigOp.expected \in SaveArgs
    /\ lastConfigOp.before = lastConfigOp.expected
    /\ lastConfigOp.before # ShippedConfig

NoDuplicates(models) ==
    \A a, b \in 1..Len(models) : models[a] = models[b] => a = b

\* C14 (as claimed): after any sequence of the operations, successful or
\* rejected, every provider entry getModelsConfig returns has its default among
\* its models, at least one model, only non-empty model names and no duplicates.
C14_ReturnedConfigWellFormed ==
    \A key \in DOMAIN Observed :
        /\ ValidateProviderConfig(Observed[key])
        /\ NoDuplicates(Observed[key].models)

IsPermutation(newOrder, models) ==
    /\ Len(newOrder) = Len(models)
    /\ \A m \in ModelArgs :
          Cardinality({ n \in 1..Len(newOrder) : newOrder[n] = m })
              = Cardinality({ n \in 1..Len(models) : models[n] = m })

\* C15 (as claimed): reorderModels is rejected with a config error whenever the
\* new order is not a permutation of the provider's current models.
C15_ReorderRejectsNonPermutation ==
    (/\ lastConfigOp.op = "reorderModels"
     /\ lastConfigOp.key \in DOMAIN lastConfigOp.before
     /\ ~IsPermutation(lastConfigOp.newOrder,
                       lastConfigOp.before[lastConfigOp.key].models)) =>
        lastConfigOp.outcome = "ConfigError"

\* C16 (as claimed): removeModel is rejected when the model is the default, the
\* only model or not in the list; a rejected removeModel leaves the
\* configuration as it was; an accepted one removes only that model and keeps
\* the order of the others.
C16_RemoveModelContract ==
    (lastConfigOp.op = "removeModel" /\ lastConfigOp.key \in DOMAIN lastConfigOp.before) =>
        LET entry == lastConfigOp.before[lastConfigOp.key]
            model == lastConfigOp.model
        IN  /\ (\/ entry.default = model
                \/ Len(entry.models) = 1
                \/ ~Includes(entry.models, model)) =>
                    lastConfigOp.outcome = "ConfigError"
            /\ lastConfigOp.outcome = "ConfigError" =>
                    lastConfigOp.after = lastConfigOp.before
            /\ lastConfigOp.outcome = "ok" =>
                    lastConfigOp.after =
                        [lastConfigOp.before EXCEPT ![lastConfigOp.key].models =
                            WithoutModel(entry.models, model)]

\* The attempt that returned the ChatResult is the last one of the call and the
\* only one whose adapter delivered a chunk.
ServedByLastAttempt ==
    /\ attempts # << >>
    /\ attempts[Len(attempts)] =
          [providerKey |-> result.providerKey, model |-> result.model, delivered |-> TRUE]
    /\ \A n \in 1..Len(attempts) : attempts[n].delivered => n = Len(attempts)

\* C11: the stream of a returned ChatResult yields exactly the chunks the one
\* chat() invocation of the selected adapter delivered: the first chunk first,
\* then every later chunk in order, each once, empty ones included; the adapter
\* is not invoked again.
C11_StreamIsTheUpstreamRun ==
    loop # "none" =>
        /\ combined = upstreamChunks
        /\ combined[1] = result.firstChunk
        /\ ServedByLastAttempt

\* C11 witness: an upstream run with an empty chunk in its middle was yielded
\* to its end.
C11_Witness ==
    /\ upstream = "done"
    /\ Len(combined) = 3
    /\ combined[2] = ""
    /\ combined[3] # ""

FramesOfKind(kind) == { n \in 1..Len(frames) : frames[n].kind = kind }

EndsWithOne(kind) ==
    /\ Cardinality(FramesOfKind(kind)) = 1
    /\ frames[Len(frames)].kind = kind

\* C17 (as claimed): for any upstream run that delivers at least one chunk, the
\* OpenAI streaming response holds exactly one data: [DONE] frame, written
\* last, and the Anthropic streaming response exactly one message_stop event,
\* written last.  Checked on the responses the server has closed, for runs that
\* delivered a chunk with content and clients that did not abort.
C17_StreamEndsWithTerminator ==
    (/\ loop = "closed"
     /\ ~aborted
     /\ \E n \in 1..Len(upstreamChunks) : upstreamChunks[n] # ""
     /\ ShouldStream(handler, request.body)) =>
        /\ handler = "handleChatCompletions" => EndsWithOne("done")
        /\ handler = "handleMessages" => EndsWithOne("message_stop")

\* C18: all attempts of a request happen before its first response byte: no
\* byte is sent until handleChat has returned with a first chunk, a request
\* whose attempts all failed is answered 503 without any frame, and an upstream
\* error in mid-stream invokes no further adapter.
C18_AttemptsBeforeFirstByte ==
    (request # NoRequest /\ handler \in ChatHandlers
        /\ HandlerReply(handler, request.body) = NoResponse) =>
        /\ response # NoResponse => pc \in {"returned", "thrown"}
        /\ (response.status = 200 \/ frames # << >>) =>
              /\ pc = "returned"
              /\ upstreamChunks # << >>
              /\ ServedByLastAttempt
        /\ pc = "thrown" => frames = << >> /\ response.status = 503
        /\ upstream = "threw" => pc = "returned" /\ ServedByLastAttempt

\* C18 witness: a streamed response that began after a failed attempt and whose
\* upstream failed after frames had been written.
C18_Witness ==
    /\ Len(attempts) > 1
    /\ upstream = "threw"
    /\ response.status = 200
    /\ taken > 0

\* C19 (as claimed): while a response is streamed, the next upstream chunk is
\* read only after the client has taken the frames of the previous one, and the
\* frames produced but not taken never exceed those of one read.
C19_ReadsWaitForClient ==
    (loop # "none" /\ ShouldStream(handler, request.body) /\ ~aborted) =>
        /\ loop = "awaiting" => taken = Len(frames)
        /\ Len(frames) - taken <= Len(FormatAnthropicEnd(0))

\* C20 (as claimed): when the client aborts while a response is streamed, no
\* further upstream chunk is read once the abort is observed, and the upstream
\* iterator is released.
C20_AbortReleasesUpstream ==
    aborted =>
        /\ readsAfterAbort = 0
        /\ loop = "closed" => upstream # "open"

\* C21 (as claimed): an attempt whose first-chunk read never completes is
\* eventually treated as failed, and the dispatch goes on to its next step
\* instead of waiting forever.
C21_StalledAttemptEnds == stalled ~> ~stalled

RowsWithHash(rows, keyHash) == { r \in rows : r.key_hash = keyHash }

\* The step in which a validateApiKey(key) call returns: at once, or after its
\* await on hashApiKey.
ValidationReturnsEarly(key) ==
    /\ hashing' = hashing
    /\ returned' # returned
    /\ returned'.op = "validateApiKey"
    /\ returned'.key = key

ValidationLooksUpKey(key) == hashing'[key] = hashing[key] - 1

\* C22: validateApiKey returns null and leaves every record as it was when the
\* key is empty, lacks the "sk-" prefix, has a hash that is not stored, or
\* belongs to a revoked record.
C22_RefusedValidationChangesNothing ==
    [][\A key \in KeyInputs :
          LET stored == RowsWithHash(apiKeys, HashApiKey(key))
              refused == \/ key = ""
                         \/ ~StartsWithSk(key)
                         \/ stored = {}
                         \/ \A r \in stored : r.is_active = 0
          IN  (refused /\ (ValidationReturnsEarly(key) \/ ValidationLooksUpKey(key))) =>
                  /\ returned'.op = "validateApiKey"
                  /\ ~returned'.ok
                  /\ apiKeys' = apiKeys]_vars

\* C22 witness: a key that had been used was revoked, and its next validation
\* was answered null.
C22_Witness ==
    \E r \in apiKeys :
        /\ r.is_active = 0
        /\ r.usage_count = 1
        /\ returned.op = "validateApiKey"
        /\ ~returned.ok
        /\ returned.key # NULL
        /\ r.key_hash = HashApiKey(returned.key)

RowById(rows, id) == CHOOSE r \in rows : r.id = id

\* The step is the return of a successful validateApiKey call for record id.
ValidationSucceedsFor(id) ==
    /\ \E key \in KeyInputs : ValidationLooksUpKey(key)
    /\ returned'.ok
    /\ returned'.id = id

\* C23: every successful validateApiKey call adds exactly 1 to the record's
\* usage_count and sets last_used_at, whatever validations of the same key are
\* in flight, and nothing else changes either field: after n successful
\* validations the count has grown by n, and a validation that races with
\* revokeApiKey either succeeds and counts or returns null and does not count.
C23_UsageCountsSuccesses ==
    [][/\ \A id \in { r.id : r \in apiKeys } \cap { r.id : r \in apiKeys' } :
             LET before == RowById(apiKeys, id)
                 after == RowById(apiKeys', id)
             IN  IF ValidationSucceedsFor(id)
                 THEN /\ after.usage_count = before.usage_count + 1
                      /\ after.last_used_at = "now"
                 ELSE /\ after.usage_count = before.usage_count
                      /\ after.last_used_at = before.last_used_at
       /\ \A key \in KeyInputs :
             (ValidationLooksUpKey(key) /\ returned'.ok) =>
                 \E r \in apiKeys : r.id = returned'.id /\ r.key_hash = HashApiKey(key)]_vars

\* C23 witness: a record was validated twice, then revoked while a third
\* validation of its key was waiting, and that validation was answered null.
C23_Witness ==
    \E r \in apiKeys :
        /\ r.usage_count = 2
        /\ r.is_active = 0
        /\ returned.op = "validateApiKey"
        /\ ~returned.ok
        /\ returned.key # NULL
        /\ r.key_hash = HashApiKey(returned.key)

\* The 0-based position of the provider with this key in a list.
PositionOf(ps, key) == (CHOOSE k \in 1..Len(ps) : ps[k].key = key) - 1

\* C24: after handleChat returns a result served by the provider at position j
\* of the call's list of length N, the round-robin index is (j + 1) mod N; a
\* success on the last provider, also one reached by fallback, wraps it to 0.
C24_IndexFollowsServer ==
    pc = "returned" =>
        currentProviderIndex =
            (PositionOf(providers, result.providerKey) + 1) % Len(providers)

\* C24 witness: the call started at the first of three providers, fell back
\* twice and was served by the last one; the index is 0 again.
C24_Witness ==
    /\ pc = "returned"
    /\ Len(providers) = NumProviders
    /\ startIndex = 0
    /\ result.providerKey = providers[Len(providers)].key
    /\ attempts[1].providerKey = providers[1].key
    /\ currentProviderIndex = 0

\* C25 (as claimed): a handleChat call in which no provider succeeds (every
\* provider failed, or none is active) leaves the round-robin index with the
\* value it had before the call.
C25_FailedCallKeepsIndex ==
    pc = "thrown" => currentProviderIndex = indexBefore

\* C26: under any interleaving of concurrent handleChat calls, with the size of
\* the active list changing from call to call, each call's start index is
\* within its own list (0 <= start < length) and so is every position the call
\* visits, and it visits at most as many positions as the list has.
C26_EveryCallWithinItsList ==
    /\ pc = "attempt" =>
          /\ startIndex \in 0..(Len(providers) - 1)
          /\ i < Len(providers)
          /\ ProviderIndex(startIndex, i, Len(providers)) \in 0..(Len(providers) - 1)
    /\ peer.pc = "attempt" =>
          /\ peer.start \in 0..(peer.n - 1)
          /\ peer.i < peer.n
          /\ ProviderIndex(peer.start, peer.i, peer.n) \in 0..(peer.n - 1)

\* C26 witness: a call over three providers is in flight, having started at the
\* index 2 an earlier call left, while a call over two providers starts: it found
\* the index beyond its list and starts at 0.
C26_Witness ==
    /\ pc = "attempt"
    /\ peer.pc = "attempt"
    /\ peer.n = 3
    /\ peer.start = 2
    /\ Len(providers) = 2
    /\ indexBefore = 2
    /\ startIndex = 0

\* C27 (as claimed): a configuration obtained from getModelsConfig does not
\* change for its reader: whatever addModel, removeModel, setDefaultModel,
\* toggleFallback, reorderModels or updateModel calls follow, its contents are
\* those it had when it was returned.  Stated for the calls that were accepted
\* and left well-formed contents.
C27_SnapshotKeepsItsContents ==
    (snapshot.held /\ lastConfigOp.outcome = "ok" /\ ValidateModelsConfig(snapshot.now)) =>
        snapshot.now = snapshot.taken

\* The variable holds a character that is not white space.
KeyPresent(value) ==
    value.set /\ \E n \in 1..Len(value.chars) : value.chars[n] # " "

\* The provider meets the three conditions of the registry.
MeetsConditions(key) ==
    /\ KeyPresent(registry.env[key])
    /\ ~registry.settings[key].present \/ registry.settings[key].is_enabled = 1
    /\ Len(registry.config[key].models) >= 1

C29_SortedRowlessLast ==
    registry.built =>
        /\ \A key \in KnownProviders :
              (~registry.settings[key].present /\ KeyPresent(registry.env[key])
                   /\ Len(registry.config[key].models) >= 1) =>
                  \E n \in 1..Len(registry.list) : registry.list[n].key = key
        /\ \A m, n \in 1..Len(registry.list) :
              LET a == registry.settings[registry.list[m].key]
                  b == registry.settings[registry.list[n].key]
              IN  m < n =>
                     /\ a.present \/ ~b.present
                     /\ (a.present /\ b.present) => a.priority <= b.priority
                     /\ (a.present = b.present /\ (a.present => a.priority = b.priority)) =>
                            ProviderPos(registry.list[m].key) < ProviderPos(registry.list[n].key)

\* The request being served is a POST /v1/messages with a parsable body that
\* has a messages array.
ServingMessages ==
    /\ request # NoRequest
    /\ handler = "handleMessages"
    /\ request.body \notin {"none", "bad_json", "no_messages"}

\* C30 (as claimed): a POST /v1/messages whose body has no max_tokens field is
\* answered 400 with the invalid_request_error "max_tokens is required" and
\* nothing is dispatched; a request that has the field is never rejected for
\* it, whatever its value: the value does not decide whether an upstream is
\* called.
C30_MaxTokensRequiredNotUsed ==
    ServingMessages =>
        IF ~MaxTokensField(request.body).present
        THEN /\ response = [status |-> 400, message |-> MaxTokensMessage]
             /\ pc = "idle"
             /\ attempts = << >>
             /\ upstream = "none"
        ELSE response # [status |-> 400, message |-> MaxTokensMessage]

\* C31 (as claimed): a POST to /v1/chat/completions or /v1/messages whose body
\* is not valid JSON is answered 400 with an invalid-request error and nothing
\* is dispatched.
C31_MalformedJsonIs400 ==
    (/\ request # NoRequest
     /\ handler \in {"handleChatCompletions", "handleMessages"}
     /\ request.body = "bad_json") =>
        /\ response.status = 400
        /\ pc = "idle"
        /\ attempts = << >>

\* A run of migrate() that follows a run without an error calls no up() and
\* leaves the schema and table _migrations as they were.
RerunIsNoOp ==
    migration.settled =>
        /\ migration.lateUps = 0
        /\ migration.rows = migration.settledRows
        /\ migration.applied = migration.settledApplied

\* C32 (as claimed): running migrate() again after a run in which every pending
\* migration succeeded executes no up() and changes neither the schema nor
\* table _migrations, and over any sequence of migrate() runs without rollback
\* each migration's up() is executed at most once.
C32_UpExecutedAtMostOnce ==
    /\ RerunIsNoOp
    /\ \A m \in MigrationNames : migration.upCalls[m] <= 1

\* C32 (amended): the re-run is a no-op as claimed, and each migration's up()
\* returns at most once and is recorded at most once; an up() that threw, or
\* whose recording threw, is called again by the next run.
C32_UpCompletesAtMostOnce ==
    /\ RerunIsNoOp
    /\ \A m \in MigrationNames :
          /\ migration.upDone[m] <= 1
          /\ Cardinality({ n \in 1..Len(migration.rows) : migration.rows[n] = m }) <= 1
          /\ (\E n \in 1..Len(migration.rows) : migration.rows[n] = m) =>
                 (m \in migration.applied /\ migration.upDone[m] = 1)

\* C32 witness: a first run failed in an up(), a second run completed every
\* migration, and migrate() has been run again since.
C32_Witness ==
    /\ migration.settled
    /\ migration.lateRuns >= 1
    /\ migration.stage = "idle"
    /\ Len(migration.rows) = Len(MigrationFiles)
    /\ \E m \in MigrationNames : migration.upCalls[m] = 2

OpenAIStreaming ==
    /\ loop # "none"
    /\ handler = "handleChatCompletions"
    /\ ShouldStream(handler, request.body)

\* C33 (as claimed): in every OpenAI streaming response the first frame written
\* carries a delta with role "assistant" and content, every later content frame
\* carries only content, the last frame before data: [DONE] has an empty delta
\* with finish_reason "stop", and all frames of the response share one id.
C33_OpenAIFrameShapes ==
    OpenAIStreaming =>
        /\ frames # << >> => frames[1].kind = "chunk_role" /\ frames[1].text # ""
        /\ \A n \in 2..Len(frames) : frames[n].kind # "chunk_role"
        /\ \A n \in 1..Len(frames) :
              frames[n].kind = "done" =>
                  /\ n > 1
                  /\ frames[n - 1].kind = "chunk_stop"
                  /\ frames[n - 1].text = ""
        /\ \A m, n \in 1..Len(frames) :
              (frames[m].kind # "done" /\ frames[n].kind # "done") =>
                  frames[m].id = frames[n].id

KindsOf(fs) == [n \in 1..Len(fs) |-> fs[n].kind]

DeltaFrames == SelectSeq(frames, LAMBDA f : f.kind = "content_block_delta")

\* The least k with 4k >= Len(text)
CeilQuarter(text) ==
    CHOOSE k \in 0..Len(text) : 4 * k >= Len(text) /\ 4 * (k - 1) < Len(text)

RECURSIVE CeilQuarterSum(_)
CeilQuarterSum(fs) ==
    IF fs = << >> THEN 0 ELSE CeilQuarter(Head(fs).text) + CeilQuarterSum(Tail(fs))

AnthropicCompleted ==
    /\ loop = "closed"
    /\ upstream = "done"
    /\ handler = "handleMessages"
    /\ ShouldStream(handler, request.body)
    /\ ~aborted

\* C34: an Anthropic streaming response that runs to completion emits
\* message_start, content_block_start, zero or more content_block_delta,
\* content_block_stop, message_delta, message_stop in this order, each kind but
\* content_block_delta once, and the output_tokens of message_delta is the sum of
\* ceil(len(chunk)/4) over the chunks that produced a content_block_delta.
C34_AnthropicEventOrder ==
    AnthropicCompleted =>
        /\ KindsOf(frames) =
              << "message_start", "content_block_start" >> \o KindsOf(DeltaFrames)
                 \o << "content_block_stop", "message_delta", "message_stop" >>
        /\ frames[Len(frames) - 1].output_tokens = CeilQuarterSum(DeltaFrames)

\* C34 witness: a completed run of three chunks, the middle one empty, gave two
\* content_block_delta events and two output tokens.
C34_Witness ==
    /\ AnthropicCompleted
    /\ upstreamChunks = << "Hel", "", "lo" >>
    /\ Len(DeltaFrames) = 2
    /\ frames[Len(frames) - 1].output_tokens = 2

ContentKinds == {"chunk_role", "chunk", "content_block_delta"}

ContentOf(fs) ==
    LET content == SelectSeq(fs, LAMBDA f : f.kind \in ContentKinds)
    IN  [n \in 1..Len(content) |-> content[n].text]

NonEmpty(chunks) == SelectSeq(chunks, LAMBDA c : c # "")

RECURSIVE Concat(_)
Concat(texts) == IF texts = << >> THEN "" ELSE Head(texts) \o Concat(Tail(texts))

Translating ==
    /\ loop # "none"
    /\ handler \in {"handleChatCompletions", "handleMessages"}
    /\ ShouldStream(handler, request.body)
    /\ ~aborted

\* C35: both streaming translators emit one content frame per non-empty
\* upstream chunk and none for an empty one, in upstream order: the content
\* frames are as many as the non-empty chunks of the run, and their contents
\* concatenated give the concatenation of the upstream chunks.
C35_ContentFramesFollowChunks ==
    Translating =>
        /\ Len(ContentOf(frames)) = Len(NonEmpty(upstreamChunks))
        /\ ContentOf(frames) = NonEmpty(upstreamChunks)
        /\ Concat(ContentOf(frames)) = Concat(upstreamChunks)

\* C35 witness: each translator has framed a run with an empty chunk between
\* two chunks with content.
C35_Witness ==
    /\ Translating
    /\ upstreamChunks = << "Hel", "", "lo" >>
    /\ Len(ContentOf(frames)) = 2
    /\ Concat(ContentOf(frames)) = "Hello"

\* The key of the Authorization header when it starts with "Bearer ", else the
\* x-api-key header.
DecidingKey(req) ==
    IF req.authorization.scheme = "Bearer" THEN req.authorization.value ELSE req.xApiKey

\* C36: of a request with Authorization: Bearer k1 and x-api-key: k2 only k1 is
\* validated and counted and decides the outcome; x-api-key is used only when no
\* Authorization header starts with "Bearer "; with neither the result is the
\* missing-key error, with a key that does not validate "Invalid API key".
\* Checked on every step of an authenticate call.
C36_BearerKeyDecides ==
    [][(request' # NoRequest /\ <<request, response>>' # <<request, response>>) =>
          LET key == DecidingKey(request')
              validates ==
                  /\ ~RejectedUnhashed(key)
                  /\ ActiveRowsWithHash(apiKeys, HashApiKey(key)) # {}
          IN  /\ \A other \in KeyInputs \ {key} : hashing'[other] = hashing[other]
              /\ \A r \in apiKeys : r.key_hash # HashApiKey(key) => r \in apiKeys'
              /\ response' # NoResponse =>
                    response' = IF key = "" THEN AuthFailed(MissingKeyMessage)
                                ELSE IF validates THEN AuthPassed
                                ELSE AuthFailed(InvalidKeyMessage)]_vars

\* C36 witness: a request with a Bearer key that has no row and an x-api-key
\* that has an active, unused row was refused as invalid.
C36_Witness ==
    /\ request.authorization = [scheme |-> "Bearer", value |-> "sk-b"]
    /\ request.xApiKey = "sk-a"
    /\ response = AuthFailed(InvalidKeyMessage)
    /\ returned.op = "validateApiKey"
    /\ \E r \in apiKeys :
          r.key_hash = HashApiKey("sk-a") /\ r.is_active = 1 /\ r.usage_count = 0
    /\ ActiveRowsWithHash(apiKeys, HashApiKey("sk-b")) = {}

\* C37 (as claimed): a ModelsConfig operation that ends in a config error
\* leaves the configuration getModelsConfig returns identical to the one before
\* the call, at once and after the cache has expired (time may pass after the
\* call; the formula speaks of every moment until the next call).
C37_RejectedCallChangesNothing ==
    lastConfigOp.outcome = "ConfigError" => Observed = lastConfigOp.before

\* The first call was served by the provider it tried first.
ServedByFirstProvider ==
    /\ pc = "returned"
    /\ PositionOf(providers, result.providerKey) = startIndex

\* Both calls read the index with no store in between, over lists of one size,
\* and each has returned from its first provider.
BothServedFirst ==
    /\ peer.overlap
    /\ peer.pc = "returned"
    /\ peer.i = 0
    /\ ServedByFirstProvider

\* C38: two handleChat calls that both read the index before either completed,
\* each succeeding on its first provider over the same list of size N, are
\* served by the same provider, and the index afterwards is (start + 1) mod N:
\* one advance, not two; each call has visited no provider twice.
C38_RacingCallsAdvanceOnce ==
    BothServedFirst =>
        /\ ProviderIndex(peer.start, peer.i, peer.n)
              = PositionOf(providers, result.providerKey)
        /\ currentProviderIndex = (startIndex + 1) % Len(providers)
        /\ currentProviderIndex = ((indexBefore % Len(providers)) + 1) % Len(providers)
        /\ \A n \in 1..Len(attempts) : attempts[n].providerKey = result.providerKey

\* C38 witness: over three providers both calls started at position 1, both
\* were served there, and the index is 2.
C38_Witness ==
    /\ BothServedFirst
    /\ Len(providers) = 3
    /\ startIndex = 1
    /\ peer.start = 1
    /\ currentProviderIndex = 2

KeysOf(keys) == { keys[n] : n \in 1..Len(keys) }

\* C39: syncProviders(keys) makes the keys of the table equal to keys: a key
\* without a row gets one with is_enabled = 1 and a priority above every
\* priority the table held, rising in the order of keys; rows of other keys are
\* deleted; rows of keys that had one keep is_enabled and priority; a second
\* call with the same keys changes nothing.  Checked for every list of keys on
\* every table the operations can produce.
C39_SyncMakesTableMatchKeys ==
    \A keys \in KeyLists :
        LET before == providerSettings
            after == SyncProviders(before, keys)
            added == KeysOf(keys) \ RowKeys(before)
        IN  /\ RowKeys(after) = KeysOf(keys)
            /\ \A key \in added :
                  /\ after[key].is_enabled = 1
                  /\ \A old \in RowKeys(before) : after[key].priority > before[old].priority
            /\ \A a, b \in 1..Len(keys) :
                  (a < b /\ keys[a] \in added /\ keys[b] \in added) =>
                      after[keys[a]].priority < after[keys[b]].priority
            /\ \A key \in KeysOf(keys) \cap RowKeys(before) : after[key] = before[key]
            /\ SyncProviders(after, keys) = after

\* C39 witness: after a sync that kept only groq, a sync with groq, cerebras and
\* gemini has given cerebras and gemini the priorities 3 and 4 behind groq's 2.
C39_Witness ==
    /\ ~providerSettings["openrouter"].present
    /\ providerSettings["groq"] = SettingRow(1, 2)
    /\ providerSettings["cerebras"] = SettingRow(1, 3)
    /\ providerSettings["gemini"] = SettingRow(1, 4)

\* C40 (as claimed): reorderProviders(orderedKeys) sets the priority of
\* orderedKeys[i] to i + 1 and leaves the rows of the providers not listed as
\* they are; after a reorder with a permutation of all keys
\* getAllProviderSettings returns that order; and after any sequence of
\* reorders, the menu's reorder of the active providers among them, no two
\* providers share a priority.
C40_ReorderKeepsPrioritiesApart ==
    /\ \A orderedKeys \in KeyLists :
          LET before == providerSettings
              after == ReorderProviders(before, orderedKeys)
          IN  /\ \A n \in 1..Len(orderedKeys) :
                    before[orderedKeys[n]].present =>
                        /\ after[orderedKeys[n]].priority = n
                        /\ after[orderedKeys[n]].is_enabled = before[orderedKeys[n]].is_enabled
              /\ \A key \in ProviderKeys \ KeysOf(orderedKeys) : after[key] = before[key]
              /\ RowKeys(after) = RowKeys(before)
              /\ KeysOf(orderedKeys) = RowKeys(before) =>
                    GetAllProviderSettings(after) = { orderedKeys }
    /\ \A a, b \in RowKeys(providerSettings) :
          providerSettings[a].priority = providerSettings[b].priority => a = b
====
